---- MODULE Spec2Model ----
(***************************************************************************)
(* Model of the dual-index retrieval and ingestion engine of MY-AI:        *)
(* the SQLite session store, the journal ingestion pipeline over the       *)
(* Journal vector collection, the blob store, the document worker behind   *)
(* the arq job queue, and the chat-time context assembler.                 *)
(*                                                                         *)
(* Text is a sequence of one-character strings, so that len(), slicing,    *)
(* str.rfind, str.strip, str.upper and str.lower are computed the way      *)
(* Python computes them.  Timestamps (datetime.utcnow().isoformat()) are   *)
(* integers read from a wall clock that never runs backwards; two reads    *)
(* may return the same value.  A nullable column or Optional value is <<>> *)
(* for NULL/None and <<v>> for a value.                                    *)
(***************************************************************************)
EXTENDS Integers, Sequences, FiniteSets, TLC

VARIABLES
    clock,        \* the wall clock read by datetime.utcnow()
    sessions,     \* table sessions: session_id -> row
    messages,     \* table messages: rows in id order
    nextMsgId,    \* AUTOINCREMENT counter of messages.id
    exports,      \* journal_blob/<session_id>.json: session_id -> export
    journal,      \* the Journal vector collection: payloads in upsert order
    ret,          \* what the last journal ingest returned (or "other")
    faults,       \* number of store and embedder failures so far
    clean,        \* sessions ingested with nothing done to them since
    manifest,     \* _manifest.json: blob_id -> BlobInfo
    disk,         \* blob files: storage path -> bytes
    nextBlob,     \* number of blob ids generated so far
    saved,        \* history: blob_id -> what save() was called with
    torn,         \* _manifest.json was left half written by an interrupted write
    blobRet,      \* what the last BlobStorage call returned
    library,      \* the Library vector collection: payloads in upsert order
    jobs,         \* the arq queue: job_id -> job
    runs,         \* history: blob_id -> completed process_document runs
    chat,         \* what the last prepare_chat_message returned
    cache,        \* ChatService._class_cache: (query, results) in LRU order
    store,        \* the VectorStore being constructed: probe outcome and client
    ck,           \* a running chunker call: its arguments, position and output
    recency,      \* history: the cached queries, least recently used first
    pending,      \* add_message calls in flight: caller -> the row to insert
    calls,        \* prepare_chat_message calls in flight: caller -> position
    ingests,      \* ingest_session calls in flight: caller -> position
    saves,        \* BlobStorage calls in flight: caller -> position
    registry      \* the ToolRegistry: tools, allowlist and the last result

sessVars == <<sessions, messages, nextMsgId>>
journalVars == <<exports, journal, ret, clean, faults>>
blobVars == <<manifest, disk, nextBlob, saved, torn, blobRet>>
workerVars == <<library, jobs, runs>>
moreVars == <<ingests, saves, registry>>
stepVars == <<pending, calls, moreVars>>
svcVars == <<chat, cache, recency, store, ck, stepVars>>
vars == <<clock, sessVars, journalVars, blobVars, workerVars, svcVars>>

----------------------------------------------------------------------------
(* Bounds of the model *)

MaxClock == 1
MaxMsgs == 2
\* failures of the vector store and of the embedder explored in one behaviour
MaxFaults == 1

\* config.journal_chunk_size / journal_chunk_overlap (W_j, O_j)
JournalChunkSize == 16
JournalChunkOverlap == 4

SessionIds == {"s1", "s2"}
\* the session the store and journal behaviours are explored on
StoreSessionIds == {"s1"}

None == <<>>
Some(v) == <<v>>
IsNone(o) == o = <<>>
Val(o) == o[1]

----------------------------------------------------------------------------
(* Python str operations on character sequences *)

Lowers == <<"a","b","c","d","e","f","g","h","i","j","k","l","m",
            "n","o","p","q","r","s","t","u","v","w","x","y","z">>
Uppers == <<"A","B","C","D","E","F","G","H","I","J","K","L","M",
            "N","O","P","Q","R","S","T","U","V","W","X","Y","Z">>

UpperTable ==
    [c \in {Lowers[i] : i \in 1..26} |-> Uppers[CHOOSE i \in 1..26 : Lowers[i] = c]]
LowerTable ==
    [c \in {Uppers[i] : i \in 1..26} |-> Lowers[CHOOSE i \in 1..26 : Uppers[i] = c]]

UpperChar(c) == IF c \in DOMAIN UpperTable THEN UpperTable[c] ELSE c
LowerChar(c) == IF c \in DOMAIN LowerTable THEN LowerTable[c] ELSE c

\* str.upper() / str.lower()
Upper(s) == [i \in 1..Len(s) |-> UpperChar(s[i])]
Lower(s) == [i \in 1..Len(s) |-> LowerChar(s[i])]

Min(a, b) == IF a < b THEN a ELSE b

\* a slice bound as Python reads it: negative bounds count from the end, and
\* bounds are clamped to 0..n
SliceIndex(i, n) ==
    IF i < 0 THEN (IF i + n < 0 THEN 0 ELSE i + n) ELSE Min(i, n)

\* text[a:b], Python slice bounds (0-based, b exclusive)
Slice(text, a, b) ==
    LET lo == SliceIndex(a, Len(text))
        hi == SliceIndex(b, Len(text))
    IN  IF hi <= lo THEN <<>> ELSE SubSeq(text, lo + 1, hi)

\* whether sub occurs in text at 0-based position i
OccursAt(text, sub, i) ==
    /\ i >= 0
    /\ i + Len(sub) <= Len(text)
    /\ \A k \in 1..Len(sub) : text[i + k] = sub[k]

\* text.rfind(sub, a, b): the highest 0-based i with text[i:i+len(sub)] == sub
\* lying inside text[a:b], or -1
RFind(text, sub, a, b) ==
    LET lo == SliceIndex(a, Len(text))
        hi == SliceIndex(b, Len(text))
        cand == {i \in lo..(hi - Len(sub)) : OccursAt(text, sub, i)}
    IN  IF cand = {} THEN -1 ELSE CHOOSE i \in cand : \A j \in cand : j <= i

IsSpace(c) == c \in {" ", "\n", "\t", "\r"}

RECURSIVE LStrip(_)
LStrip(s) == IF s # <<>> /\ IsSpace(Head(s)) THEN LStrip(Tail(s)) ELSE s

RECURSIVE RStrip(_)
RStrip(s) ==
    IF s # <<>> /\ IsSpace(s[Len(s)]) THEN RStrip(SubSeq(s, 1, Len(s) - 1)) ELSE s

\* str.strip()
Strip(s) == RStrip(LStrip(s))

\* sep.join(parts)
RECURSIVE Join(_, _)
Join(sep, parts) ==
    IF parts = <<>> THEN <<>>
    ELSE IF Len(parts) = 1 THEN parts[1]
    ELSE parts[1] \o sep \o Join(sep, Tail(parts))

NL2 == <<"\n", "\n">>

\* [x for x in xs if keep(x)]
RECURSIVE NonEmpty(_)
NonEmpty(xs) ==
    IF xs = <<>> THEN <<>>
    ELSE IF Head(xs) # <<>> THEN <<Head(xs)>> \o NonEmpty(Tail(xs))
    ELSE NonEmpty(Tail(xs))

----------------------------------------------------------------------------
(* JournalManager._chunk_text *)

SentenceSeps == << <<".", " ">>, <<".", "\n">>, <<"?", " ">>,
                   <<"?", "\n">>, <<"!", " ">>, <<"!", "\n">> >>

\* the for-loop over the separators: the first separator, in list order,
\* whose last occurrence lies beyond the middle of the window decides
RECURSIVE JournalSentenceEnd(_, _, _, _, _)
JournalSentenceEnd(text, start, end, chunk_size, k) ==
    IF k > Len(SentenceSeps) THEN end
    ELSE LET sep == SentenceSeps[k]
             sent_break == RFind(text, sep, start, end)
         IN  IF sent_break > start + (chunk_size \div 2)
             THEN sent_break + Len(sep)
             ELSE JournalSentenceEnd(text, start, end, chunk_size, k + 1)

JournalWindowEnd(text, start, chunk_size) ==
    LET end == start + chunk_size
    IN  IF end < Len(text)
        THEN LET para_break == RFind(text, NL2, start, end)
             IN  IF para_break > start + (chunk_size \div 2)
                 THEN para_break + 2
                 ELSE JournalSentenceEnd(text, start, end, chunk_size, 1)
        ELSE end

RECURSIVE JournalChunkLoop(_, _, _, _)
JournalChunkLoop(text, start, chunk_size, overlap) ==
    IF start < Len(text)
    THEN LET end == JournalWindowEnd(text, start, chunk_size)
         IN  <<Strip(Slice(text, start, end))>>
                 \o JournalChunkLoop(text, end - overlap, chunk_size, overlap)
    ELSE <<>>

JournalChunkText(text, chunk_size, overlap) ==
    IF Len(text) <= chunk_size THEN <<text>>
    ELSE NonEmpty(JournalChunkLoop(text, 0, chunk_size, overlap))

----------------------------------------------------------------------------
(* SessionStore (core/session_store.py) *)

Names == {None, Some(<<"n">>)}

UserRole == <<"u","s","e","r">>
AssistantRole == <<"a","s","s","i","s","t","a","n","t">>

\* the (role, content) add_message is called with for the message that gets
\* the given id: a chat alternates user messages and assistant replies
MessageInput(id) ==
    IF id % 2 = 1
    THEN [role |-> UserRole, content |-> <<"H","i",".">>]
    ELSE [role |-> AssistantRole, content |-> <<"O","k","?"," ","N","o">>]

Exists(s) == s \in DOMAIN sessions

\* SELECT ... FROM messages WHERE session_id = ? (in id order)
RECURSIVE RowsOf(_, _)
RowsOf(rows, s) ==
    IF rows = <<>> THEN <<>>
    ELSE IF Head(rows).session_id = s THEN <<Head(rows)>> \o RowsOf(Tail(rows), s)
    ELSE RowsOf(Tail(rows), s)

\* ORDER BY timestamp ASC, id ASC
MsgBefore(a, b) ==
    \/ a.timestamp < b.timestamp
    \/ a.timestamp = b.timestamp /\ a.id < b.id

RECURSIVE OrderRows(_)
OrderRows(rows) ==
    IF rows = <<>> THEN <<>>
    ELSE LET i == CHOOSE i \in 1..Len(rows) :
                      \A j \in 1..Len(rows) : j = i \/ MsgBefore(rows[i], rows[j])
             rest == [k \in 1..(Len(rows) - 1) |-> IF k < i THEN rows[k] ELSE rows[k + 1]]
         IN  <<rows[i]>> \o OrderRows(rest)

\* get_messages: dicts with id, role, content, timestamp
GetMessages(s) ==
    LET rows == OrderRows(RowsOf(messages, s))
    IN  [i \in 1..Len(rows) |->
            [id |-> rows[i].id, role |-> rows[i].role,
             content |-> rows[i].content, timestamp |-> rows[i].timestamp]]

\* get_session_with_messages: None, or the row with its messages
GetSessionWithMessages(s) ==
    IF ~Exists(s) THEN None
    ELSE Some([name |-> sessions[s].name,
               created_at |-> sessions[s].created_at,
               messages |-> GetMessages(s)])

\* has_new_messages_since_ingest comparing with >= in place of >
HasNewMessagesSinceIngestGeq(s) ==
    IF ~Exists(s) THEN FALSE
    ELSE IF sessions[s].message_count = 0 THEN FALSE
    ELSE IF IsNone(sessions[s].ingested_at) THEN TRUE
    ELSE sessions[s].last_activity >= Val(sessions[s].ingested_at)

\* has_new_messages_since_ingest
HasNewMessagesSinceIngest(s) ==
    IF ~Exists(s) THEN FALSE
    ELSE IF sessions[s].message_count = 0 THEN FALSE
    ELSE IF IsNone(sessions[s].ingested_at) THEN TRUE
    ELSE sessions[s].last_activity > Val(sessions[s].ingested_at)

\* get_sessions_needing_ingest: the session ids of the rows selected
GetSessionsNeedingIngestAnyCount ==
    { s \in DOMAIN sessions :
        \/ IsNone(sessions[s].ingested_at)
        \/ sessions[s].last_activity > Val(sessions[s].ingested_at) }
GetSessionsNeedingIngest ==
    { s \in DOMAIN sessions :
        /\ sessions[s].message_count > 0
        /\ \/ IsNone(sessions[s].ingested_at)
           \/ sessions[s].last_activity > Val(sessions[s].ingested_at) }

\* UPDATE sessions SET ingested_at = ? WHERE session_id = ?
SetIngestedAt(rows, s, ts) ==
    IF s \in DOMAIN rows
    THEN [rows EXCEPT ![s].ingested_at = Some(ts)]
    ELSE rows

\* an operation other than a journal ingest has been applied to session s
Touch(s) ==
    /\ ret' = [op |-> "other"]
    /\ clean' = clean \ {s}

\* upsert_session writing the name argument over the stored name always
UpsertSessionOverwritingName(s, name) ==
    /\ IF Exists(s)
       THEN sessions' =
              [sessions EXCEPT ![s].last_activity = clock, ![s].name = name]
       ELSE sessions' =
              [x \in DOMAIN sessions \cup {s} |->
                 IF x = s
                 THEN [name |-> name, created_at |-> clock, last_activity |-> clock,
                       message_count |-> 0, ingested_at |-> None]
                 ELSE sessions[x]]
    /\ Touch(s)
    /\ UNCHANGED <<clock, messages, nextMsgId, exports, journal, faults,
                   blobVars, workerVars, svcVars>>

\* upsert_session(session_id, name); now is the clock reading
UpsertSession(s, name) ==
    /\ IF Exists(s)
       THEN sessions' =
              [sessions EXCEPT
                 ![s].last_activity = clock,
                 ![s].name = IF name # None /\ Val(name) # <<>> THEN name ELSE @]
       ELSE sessions' =
              [x \in DOMAIN sessions \cup {s} |->
                 IF x = s
                 THEN [name |-> name, created_at |-> clock, last_activity |-> clock,
                       message_count |-> 0, ingested_at |-> None]
                 ELSE sessions[x]]
    /\ Touch(s)
    /\ UNCHANGED <<clock, messages, nextMsgId, exports, journal, faults,
                   blobVars, workerVars, svcVars>>

\* the callers increment the count at most once for every message appended
IncrementMessageCount(s) ==
    /\ Exists(s) => sessions[s].message_count < Len(RowsOf(messages, s))
    /\ sessions' = IF Exists(s)
                   THEN [sessions EXCEPT ![s].message_count = @ + 1]
                   ELSE sessions
    /\ Touch(s)
    /\ UNCHANGED <<clock, messages, nextMsgId, exports, journal, faults,
                   blobVars, workerVars, svcVars>>

\* add_message, the INSERT and its commit: the row gets the next id
InsertMessage(s, role, content, timestamp) ==
    /\ nextMsgId <= MaxMsgs
    /\ messages' = Append(messages,
            [id |-> nextMsgId, session_id |-> s, role |-> role,
             content |-> content, timestamp |-> timestamp])
    /\ nextMsgId' = nextMsgId + 1
    /\ Touch(s)
    /\ UNCHANGED <<clock, sessions, exports, journal, faults, blobVars, workerVars,
                   chat, cache, recency, store, ck, calls, moreVars>>

\* add_message called on its own: the timestamp is read and the row inserted
\* with no other call in between
AddMessage(s, role, content, timestamp) ==
    /\ InsertMessage(s, role, content,
                     IF timestamp = None THEN clock ELSE Val(timestamp))
    /\ UNCHANGED pending

\* time passes
Tick ==
    /\ clock < MaxClock
    /\ clock' = clock + 1
    /\ UNCHANGED <<sessVars, journalVars, blobVars, workerVars, svcVars>>

----------------------------------------------------------------------------
(* JournalBlobStorage.export_session and JournalManager (rag/journal.py) *)

\* f"[{role}] {content}" with role = msg["role"].upper()
FormatMessage(msg) == <<"[">> \o Upper(msg.role) \o <<"]", " ">> \o msg.content

FormatMessages(msgs) == [i \in 1..Len(msgs) |-> FormatMessage(msgs[i])]

Truthy(name) == name # None /\ Val(name) # <<>>

ConversationHeader == <<"C","o","n","v","e","r","s","a","t","i","o","n",":"," ">>

\* _format_conversation_for_ingestion
FormatConversationForIngestion(session_data) ==
    LET header == IF Truthy(session_data.name)
                  THEN <<ConversationHeader \o Val(session_data.name), <<>> >>
                  ELSE <<>>
    IN  Join(NL2, header \o FormatMessages(session_data.messages))

\* The conversation texts the message inputs can produce, chunked once with
\* the configured journal_chunk_size and journal_chunk_overlap; any other
\* text is chunked when it is met.
MessageOrders ==
    { q \in UNION { [1..n -> 1..MaxMsgs] : n \in 1..MaxMsgs } :
        \A i, j \in DOMAIN q : i # j => q[i] # q[j] }

KnownTexts ==
    { FormatConversationForIngestion(
          [name |-> name, messages |-> [i \in DOMAIN q |-> MessageInput(q[i])]]) :
        name \in Names, q \in MessageOrders }

JournalChunkTable ==
    [text \in KnownTexts |->
        JournalChunkText(text, JournalChunkSize, JournalChunkOverlap)]

\* self._chunk_text(conversation_text, chunk_size=config.journal_chunk_size,
\*                  overlap=config.journal_chunk_overlap)
ConfiguredChunks(text) ==
    IF text \in DOMAIN JournalChunkTable
    THEN JournalChunkTable[text]
    ELSE JournalChunkText(text, JournalChunkSize, JournalChunkOverlap)

\* export_session: the JSON document written to <session_id>.json
ExportData(s, session_data) ==
    [session_id |-> s,
     name |-> session_data.name,
     created_at |-> session_data.created_at,
     exported_at |-> clock,
     message_count |-> Len(session_data.messages),
     messages |-> session_data.messages]

WriteExport(files, s, data) ==
    [x \in DOMAIN files \cup {s} |-> IF x = s THEN data ELSE files[x]]

\* the points of collection coll that do not match session_id == s
RECURSIVE WithoutSession(_, _)
WithoutSession(coll, s) ==
    IF coll = <<>> THEN <<>>
    ELSE IF Head(coll).session_id = s THEN WithoutSession(Tail(coll), s)
    ELSE <<Head(coll)>> \o WithoutSession(Tail(coll), s)

\* delete_session_chunks deleting without the session_id filter
DeleteSessionChunksUnfiltered(coll, s, ok) == IF ok THEN <<>> ELSE coll

\* delete_session_chunks: client.delete by filter; a failure of the store is
\* logged and swallowed, leaving the collection as it was
DeleteSessionChunks(coll, s, ok) == IF ok THEN WithoutSession(coll, s) ELSE coll

\* get_session_chunk_count
GetSessionChunkCount(s) == Len(journal) - Len(WithoutSession(journal, s))

\* the JournalChunkPayload of every chunk (ingest_session step 5)
JournalPoints(s, session_data, chunks, ingested_at) ==
    [i \in 1..Len(chunks) |->
        [text |-> chunks[i],
         session_id |-> s,
         session_name |-> session_data.name,
         chunk_index |-> i - 1,
         total_chunks |-> Len(chunks),
         message_count |-> Len(session_data.messages),
         ingested_at |-> ingested_at]]

\* VectorStore.add_points: the points stored and the count returned; a failure
\* of client.upsert is printed and swallowed, and 0 is returned
AddPoints(coll, points, ok) ==
    IF ok THEN [coll |-> coll \o points, count |-> Len(points)]
    ELSE [coll |-> coll, count |-> 0]

\* the points of session s in collection coll, in upsert order
SessionPoints(coll, s) == SelectSeq(coll, LAMBDA p : p.session_id = s)

\* the chunks of session s in the Journal collection, without ids and stamps
ChunkView(coll, s) ==
    LET mine == SessionPoints(coll, s)
    IN  [i \in 1..Len(mine) |->
            [chunk_index |-> mine[i].chunk_index, text |-> mine[i].text,
             total_chunks |-> mine[i].total_chunks]]

IngestReturn(s, kind, steps, created, stamp) ==
    [op |-> "ingest_session", session_id |-> s, kind |-> kind, steps |-> steps,
     chunks_created |-> created, ingested_at |-> stamp]

\* ingest_session step 1: the session is missing (`session_data is None`) or
\* it has no messages (`not messages`), and the call returns an error dict
NothingToIngestAbsentOnly(found) == found = None
NothingToIngest(found) == found = None \/ Val(found).messages = <<>>

\* ingest_session(session_id); delete_ok, embed_ok and upsert_ok say whether
\* client.delete, embedder.encode and client.upsert go through or raise
IngestSession(s) ==
    LET found == GetSessionWithMessages(s)
    IN  IF NothingToIngest(found)
        THEN /\ ret' = IngestReturn(s, "error", <<"load">>, 0, None)
             /\ UNCHANGED <<clock, sessVars, exports, journal, clean, faults,
                            blobVars, workerVars, svcVars>>
        ELSE LET session_data == Val(found)
                 text == FormatConversationForIngestion(session_data)
                 chunks == ConfiguredChunks(text)
                 ingested_at == clock
                 points == JournalPoints(s, session_data, chunks, ingested_at)
             IN  \E delete_ok, embed_ok, upsert_ok \in BOOLEAN :
                 LET deleted == DeleteSessionChunks(journal, s, delete_ok)
                     added == AddPoints(deleted, points, upsert_ok)
                     failed == (IF delete_ok THEN 0 ELSE 1) + (IF embed_ok THEN 0 ELSE 1)
                                 + (IF upsert_ok THEN 0 ELSE 1)
                 IN  /\ faults + failed <= MaxFaults
                     /\ faults' = faults + failed
                     /\ ~embed_ok => upsert_ok
                     /\ exports' = WriteExport(exports, s, ExportData(s, session_data))
                     /\ IF ~embed_ok
                        THEN \* embedder.encode raises: the exception leaves the call
                             /\ journal' = deleted
                             /\ ret' = IngestReturn(s, "raised",
                                           <<"load", "export", "delete", "chunk", "embed">>,
                                           0, None)
                             /\ clean' = clean \ {s}
                             /\ UNCHANGED sessions
                        ELSE /\ journal' = added.coll
                             /\ sessions' = SetIngestedAt(sessions, s, ingested_at)
                             /\ ret' = IngestReturn(s, "ok",
                                           <<"load", "export", "delete", "chunk", "embed",
                                             "upsert", "watermark">>,
                                           added.count, Some(ingested_at))
                             /\ clean' = clean \cup {s}
                     /\ UNCHANGED <<clock, messages, nextMsgId, blobVars, workerVars, svcVars>>

----------------------------------------------------------------------------
(* The session store and the journal pipeline *)

EmptyMap == [x \in {} |-> 0]

Init ==
    /\ clock = 0
    /\ sessions = EmptyMap
    /\ messages = <<>>
    /\ nextMsgId = 1
    /\ exports = EmptyMap
    /\ journal = <<>>
    /\ ret = [op |-> "other"]
    /\ clean = {}
    /\ faults = 0
    /\ manifest = EmptyMap
    /\ disk = EmptyMap
    /\ nextBlob = 0
    /\ saved = EmptyMap
    /\ library = <<>>
    /\ jobs = EmptyMap
    /\ runs = EmptyMap
    /\ chat = [op |-> "none"]
    /\ torn = FALSE
    /\ blobRet = [op |-> "none"]
    /\ cache = <<>>
    /\ store = [state |-> "unconstructed"]
    /\ ck = [pc |-> "idle"]
    /\ recency = <<>>
    /\ pending = EmptyMap
    /\ calls = EmptyMap
    /\ ingests = EmptyMap
    /\ saves = EmptyMap
    /\ registry = [tools |-> {}, allowlist |-> None, last |-> [op |-> "none"]]

Next ==
    \/ Tick
    \/ \E s \in StoreSessionIds, name \in Names : UpsertSession(s, name)
    \/ \E s \in StoreSessionIds : IncrementMessageCount(s)
    \/ \E s \in StoreSessionIds :
          AddMessage(s, MessageInput(nextMsgId).role, MessageInput(nextMsgId).content, None)
    \/ \E s \in StoreSessionIds : IngestSession(s)

Spec == Init /\ [][Next]_vars

----------------------------------------------------------------------------
(* Properties of the session store and of the journal pipeline *)

\* the step is a call add_message(s, ...): a row with a fresh id is appended
AddMessageStep(s) ==
    /\ nextMsgId' = nextMsgId + 1
    /\ messages'[Len(messages')].session_id = s

\* the step is a call ingest_session(s) that got past loading the session
IngestStep(s) ==
    /\ ret'.op = "ingest_session"
    /\ ret'.session_id = s
    /\ ret'.kind # "error"
    /\ <<exports, journal, sessions, ret, faults, clean>>'
          # <<exports, journal, sessions, ret, faults, clean>>

\* the chunks ingest_session(s) makes of the session as it is stored now
CurrentChunks(s) ==
    ConfiguredChunks(FormatConversationForIngestion(Val(GetSessionWithMessages(s))))

\* C1: a call add_message(s, ...) on a session whose message_count equals the
\* number of its messages leaves message_count equal to the number of
\* messages get_messages(s) returns: add_message itself increments the count.
C1_CountFollowsAddMessage ==
    [][\A s \in DOMAIN sessions :
          (AddMessageStep(s) /\ sessions[s].message_count = Len(GetMessages(s)))
             => sessions'[s].message_count = Len(GetMessages(s)')]_vars

\* C2: after add_message(s, ...) on an existing session that has counted
\* messages, never ingested or already ingested, has_new_messages_since_ingest(s)
\* is true, and last_activity has advanced to the time of the call.
C2_StaleAfterAddMessage ==
    [][\A s \in DOMAIN sessions :
          (AddMessageStep(s) /\ sessions[s].message_count > 0)
             => /\ HasNewMessagesSinceIngest(s)'
                /\ sessions'[s].last_activity = clock]_vars

\* C3: when ingest_session(S) has returned a success result, the Journal
\* points with session_id = S are exactly the chunks of that call: as many as
\* the new chunk count, all with that total_chunks and the call's ingested_at.
C3_OnlyThisIngestsChunks ==
    (ret.op = "ingest_session" /\ ret.kind = "ok") =>
        LET s == ret.session_id
            mine == SessionPoints(journal, s)
            total == Len(CurrentChunks(s))
        IN  /\ GetSessionChunkCount(s) = total
            /\ \A i \in 1..Len(mine) :
                  /\ mine[i].total_chunks = total
                  /\ mine[i].ingested_at = Val(ret.ingested_at)

\* C4: a call ingest_session(S) that fails after the delete step and before
\* the watermark step (the embedder raises, or the upsert stores nothing)
\* leaves ingested_at of S as it was.
C4_FailureKeepsWatermark ==
    [][\A s \in DOMAIN sessions :
          (IngestStep(s) /\ (ret'.kind = "raised" \/ ret'.chunks_created = 0))
             => sessions'[s].ingested_at = sessions[s].ingested_at]_vars

\* C6: a call ingest_session(s) on a session that was ingested and has not
\* been changed since leaves the Journal with the same chunks for s: the same
\* total_chunks and the same text for every chunk_index.
C6_ReingestSameChunks ==
    [][\A s \in clean :
          (IngestStep(s) /\ ret'.kind = "ok")
             => ChunkView(journal', s) = ChunkView(journal, s)]_vars

\* the position of a step in the record of the steps a call went through
StepIndex(steps, name) ==
    IF \E i \in 1..Len(steps) : steps[i] = name
    THEN CHOOSE i \in 1..Len(steps) : steps[i] = name
    ELSE 0

IngestCall(s) ==
    /\ ret'.op = "ingest_session"
    /\ ret'.session_id = s
    /\ clock' = clock

\* C21: ingest_session(S) for a session that has no row, or that has no
\* messages, returns an error result and changes nothing: no export is
\* written, the Journal collection is left as it is, no table row changes.
C21_NothingToIngestIsAnError ==
    [][\A s \in SessionIds :
          (IngestCall(s) /\ (s \notin DOMAIN sessions \/ GetMessages(s) = <<>>))
             => /\ ret'.kind = "error"
                /\ ret'.chunks_created = 0
                /\ UNCHANGED <<exports, journal, sessions, messages>>]_vars

\* ingest_session has returned an error for a session that has a row and no
\* messages, some time after the session was created
C21_Witness ==
    /\ ret.op = "ingest_session"
    /\ ret.kind = "error"
    /\ ret.session_id \in DOMAIN sessions
    /\ GetMessages(ret.session_id) = <<>>
    /\ sessions[ret.session_id].created_at < clock

\* the session has a row that says it has messages and was never ingested
\* or was active after its last ingest
StaleForIngest(s) ==
    \E row \in {sessions[x] : x \in DOMAIN sessions \cap {s}} :
        /\ row.message_count > 0
        /\ \/ row.ingested_at = <<>>
           \/ row.ingested_at # <<>> /\ row.last_activity > row.ingested_at[1]

SessionHeader == <<"S","e","s","s","i","o","n",":"," ">>

\* JournalBlobStorage.get_session_text: the text of the export of session s,
\* None when there is no export
GetSessionText(files, s) ==
    IF s \notin DOMAIN files THEN None
    ELSE LET session_data == files[s]
             header == IF Truthy(session_data.name)
                       THEN <<SessionHeader \o Val(session_data.name), <<>> >>
                       ELSE <<>>
         IN  Some(Join(NL2, header \o FormatMessages(session_data.messages)))

\* C30: whenever ingest_session gets past its first step for a session, the
\* conversation text it formats, chunks and embeds is the text
\* get_session_text returns for the export the same call has written.
C30_IngestedTextIsCanonicalText ==
    [][\A s \in SessionIds :
          (IngestCall(s) /\ ret'.kind # "error")
             => GetSessionText(exports', s)
                  = Some(FormatConversationForIngestion(
                             Val(GetSessionWithMessages(s))))]_vars

----------------------------------------------------------------------------
(* The session store with appends in flight and with deletions *)

\* the threads (or processes) that call add_message
Callers == {"c1", "c2"}

\* add_message up to the INSERT: the timestamp is read from the clock (or
\* taken from the argument) before the connection is opened
AddMessageBegin(caller, s, role, content, timestamp) ==
    /\ caller \notin DOMAIN pending
    /\ nextMsgId + Cardinality(DOMAIN pending) <= MaxMsgs
    /\ pending' = [x \in DOMAIN pending \cup {caller} |->
                      IF x = caller
                      THEN [session_id |-> s, role |-> role, content |-> content,
                            timestamp |-> IF timestamp = None THEN clock
                                          ELSE Val(timestamp)]
                      ELSE pending[x]]
    /\ UNCHANGED <<clock, sessVars, journalVars, blobVars, workerVars,
                   chat, cache, recency, store, ck, calls, moreVars>>

\* add_message from the INSERT on: SQLite serializes the writers, and the
\* row is committed under the timestamp read before
AddMessageCommit(caller) ==
    /\ caller \in DOMAIN pending
    /\ InsertMessage(pending[caller].session_id, pending[caller].role,
                     pending[caller].content, pending[caller].timestamp)
    /\ pending' = [x \in DOMAIN pending \ {caller} |-> pending[x]]

\* DELETE FROM messages WHERE session_id = ?
WithoutMessages(rows, s) == SelectSeq(rows, LAMBDA row : row.session_id # s)

\* delete_session(session_id): the messages are deleted, then the session
\* row; returns cursor.rowcount > 0 of the second DELETE
DeleteSession(s) ==
    /\ messages' = WithoutMessages(messages, s)
    /\ sessions' = [x \in DOMAIN sessions \ {s} |-> sessions[x]]
    /\ ret' = [op |-> "delete_session", session_id |-> s, returned |-> Exists(s)]
    /\ clean' = clean \ {s}
    /\ UNCHANGED <<clock, nextMsgId, exports, journal, faults,
                   blobVars, workerVars, svcVars>>

\* delete_messages(session_id): the session row is kept
DeleteMessages(s) ==
    /\ messages' = WithoutMessages(messages, s)
    /\ ret' = [op |-> "delete_messages", session_id |-> s,
               returned |-> Len(RowsOf(messages, s))]
    /\ clean' = clean \ {s}
    /\ UNCHANGED <<clock, sessions, nextMsgId, exports, journal, faults,
                   blobVars, workerVars, svcVars>>

NextSessions ==
    \/ Tick
    \/ \E s \in SessionIds : UpsertSession(s, None)
    \/ \E s \in SessionIds : IncrementMessageCount(s)
    \/ \E caller \in Callers, s \in SessionIds :
          AddMessageBegin(caller, s, UserRole, <<"H","i",".">>, None)
    \/ \E caller \in Callers : AddMessageCommit(caller)
    \/ \E s \in SessionIds : DeleteSession(s)
    \/ \E s \in SessionIds : DeleteMessages(s)

SpecSessions == Init /\ [][NextSessions]_vars

\* C23: for every session, get_messages returns the messages in the order
\* in which their add_message calls were committed, that is in the order of
\* their insertion ids, also when appends to the session run concurrently.
C23_MessagesInCommitOrder ==
    \A s \in SessionIds :
        \A rows \in {GetMessages(s)} :
            \A i, j \in 1..Len(rows) : i < j => rows[i].id < rows[j].id

\* C24: every message row belongs to an existing session; delete_session(s)
\* removes the row of s and all messages of s, returns true iff s existed,
\* and leaves the rows and messages of the other sessions as they were.
C24_NoOrphanMessages ==
    /\ [](\A i \in 1..Len(messages) : messages[i].session_id \in DOMAIN sessions)
    /\ [][\A s \in SessionIds :
             (ret'.op = "delete_session" /\ ret'.session_id = s /\ clock' = clock)
                => /\ s \notin DOMAIN sessions'
                   /\ RowsOf(messages', s) = <<>>
                   /\ ret'.returned = (s \in DOMAIN sessions)
                   /\ \A o \in SessionIds \ {s} :
                         /\ RowsOf(messages', o) = RowsOf(messages, o)
                         /\ (o \in DOMAIN sessions) = (o \in DOMAIN sessions')
                         /\ o \in DOMAIN sessions => sessions'[o] = sessions[o]]_vars

----------------------------------------------------------------------------
(* ingest_session with invocations in flight: one step for every access to  *)
(* the session store, the export directory and the Journal collection       *)

SetIngest(caller, rec) ==
    ingests' = [x \in DOMAIN ingests \cup {caller} |->
                   IF x = caller THEN rec ELSE ingests[x]]

IngestUnchanged ==
    UNCHANGED <<clock, messages, nextMsgId, clean, blobVars, workerVars,
                chat, cache, recency, store, ck, pending, calls, saves, registry>>

\* ingest_session step 1: the session and its messages are read; a session
\* that is missing or has no messages ends the call with an error dict
IngestLoad(caller, s) ==
    /\ caller \in DOMAIN ingests => ingests[caller].pc = "done"
    /\ \E found \in {GetSessionWithMessages(s)} :
          IF NothingToIngest(found)
          THEN /\ ret' = IngestReturn(s, "error", <<"load">>, 0, None)
               /\ ingests' = [x \in DOMAIN ingests \ {caller} |-> ingests[x]]
          ELSE /\ SetIngest(caller, [pc |-> "loaded", session_id |-> s,
                                     session_data |-> Val(found), kept |-> <<>>,
                                     stored |-> <<>>, ingested_at |-> None])
               /\ UNCHANGED ret
    /\ UNCHANGED <<sessions, exports, journal, faults>>
    /\ IngestUnchanged

\* step 2: the export file of the session is written
IngestExport(caller) ==
    /\ caller \in DOMAIN ingests
    /\ ingests[caller].pc = "loaded"
    /\ exports' = WriteExport(exports, ingests[caller].session_id,
                      ExportData(ingests[caller].session_id, ingests[caller].session_data))
    /\ SetIngest(caller, [ingests[caller] EXCEPT !.pc = "exported"])
    /\ UNCHANGED <<sessions, journal, faults, ret>>
    /\ IngestUnchanged

\* step 3: delete_session_chunks; kept is what the call leaves of the session
IngestDelete(caller) ==
    /\ caller \in DOMAIN ingests
    /\ ingests[caller].pc = "exported"
    /\ \E delete_ok \in BOOLEAN :
          /\ faults + (IF delete_ok THEN 0 ELSE 1) <= MaxFaults
          /\ faults' = faults + (IF delete_ok THEN 0 ELSE 1)
          /\ journal' = DeleteSessionChunks(journal, ingests[caller].session_id, delete_ok)
          /\ SetIngest(caller,
                [ingests[caller] EXCEPT
                    !.pc = "deleted",
                    !.kept = SessionPoints(journal', ingests[caller].session_id)])
    /\ UNCHANGED <<sessions, exports, ret>>
    /\ IngestUnchanged

\* steps 4 and 5: the text is formatted and chunked, ingested_at is read from
\* the clock, the chunks are embedded and the points upserted
IngestUpsert(caller) ==
    /\ caller \in DOMAIN ingests
    /\ ingests[caller].pc = "deleted"
    /\ \E s \in {ingests[caller].session_id} :
       \E session_data \in {ingests[caller].session_data} :
       \E chunks \in {ConfiguredChunks(FormatConversationForIngestion(session_data))} :
       \E points \in {JournalPoints(s, session_data, chunks, clock)} :
       \E embed_ok, upsert_ok \in BOOLEAN :
          /\ ~embed_ok => upsert_ok
          /\ faults + (IF embed_ok /\ upsert_ok THEN 0 ELSE 1) <= MaxFaults
          /\ faults' = faults + (IF embed_ok /\ upsert_ok THEN 0 ELSE 1)
          /\ IF ~embed_ok
             THEN /\ ret' = IngestReturn(s, "raised",
                                <<"load", "export", "delete", "chunk", "embed">>, 0, None)
                  /\ SetIngest(caller, [ingests[caller] EXCEPT !.pc = "done"])
                  /\ UNCHANGED journal
             ELSE /\ journal' = AddPoints(journal, points, upsert_ok).coll
                  /\ SetIngest(caller,
                        [ingests[caller] EXCEPT
                            !.pc = "upserted",
                            !.stored = IF upsert_ok THEN points ELSE <<>>,
                            !.ingested_at = Some(clock)])
                  /\ UNCHANGED ret
    /\ UNCHANGED <<sessions, exports>>
    /\ IngestUnchanged

\* step 6: set_ingested_at, and the result dict is returned
IngestWatermark(caller) ==
    /\ caller \in DOMAIN ingests
    /\ ingests[caller].pc = "upserted"
    /\ sessions' = SetIngestedAt(sessions, ingests[caller].session_id,
                                 Val(ingests[caller].ingested_at))
    /\ ret' = IngestReturn(ingests[caller].session_id, "ok",
                           <<"load", "export", "delete", "chunk", "embed",
                             "upsert", "watermark">>,
                           Len(ingests[caller].stored), ingests[caller].ingested_at)
    /\ SetIngest(caller, [ingests[caller] EXCEPT !.pc = "done"])
    /\ UNCHANGED <<exports, journal, faults>>
    /\ IngestUnchanged

\* the steps of the invocation of one caller
IngestSteps(caller) ==
    \/ IngestExport(caller)
    \/ IngestDelete(caller)
    \/ IngestUpsert(caller)
    \/ IngestWatermark(caller)

\* an invocation of the caller is between its load and its return
InFlight(caller) == caller \in DOMAIN ingests /\ ingests[caller].pc # "done"

StoreFaults == {"none", "chunks", "blob", "sqlite"}

\* JournalManager.delete_session(session_id): the chunks, the export and the
\* rows are removed in this order; fault names the store whose removal
\* fails: delete_session_chunks logs its failure and returns 0, a failure of
\* the unlink or of the DELETE raises and the call returns False
JournalDeleteSession(s, fault) ==
    /\ faults + (IF fault = "none" THEN 0 ELSE 1) <= MaxFaults
    /\ faults' = faults + (IF fault = "none" THEN 0 ELSE 1)
    /\ journal' = DeleteSessionChunks(journal, s, fault # "chunks")
    /\ exports' = IF fault = "blob" THEN exports
                  ELSE [x \in DOMAIN exports \ {s} |-> exports[x]]
    /\ IF fault \in {"blob", "sqlite"}
       THEN UNCHANGED <<sessions, messages>>
       ELSE /\ messages' = WithoutMessages(messages, s)
            /\ sessions' = [x \in DOMAIN sessions \ {s} |-> sessions[x]]
    /\ ret' = [op |-> "journal_delete_session", session_id |-> s,
               returned |-> fault \notin {"blob", "sqlite"}]
    /\ clean' = clean \ {s}
    /\ UNCHANGED <<clock, nextMsgId, blobVars, workerVars, svcVars>>

\* two workers, each ingesting a session of its own
SessionOfCaller(caller) == IF caller = "c1" THEN "s1" ELSE "s2"

NextIsolated ==
    \/ \E s \in SessionIds : UpsertSession(s, None)
    \/ \E s \in SessionIds :
          AddMessage(s, MessageInput(nextMsgId).role, MessageInput(nextMsgId).content, None)
    \/ \E caller \in Callers : IngestLoad(caller, SessionOfCaller(caller))
    \/ \E caller \in Callers : IngestSteps(caller)
    \/ \E s \in SessionIds, fault \in {"none", "chunks"} :
          /\ \A caller \in Callers : InFlight(caller) => ingests[caller].session_id # s
          /\ s \in DOMAIN sessions
          /\ JournalDeleteSession(s, fault)

SpecIsolated == Init /\ [][NextIsolated]_vars

\* two workers ingesting the same session, while the session is appended
\* to; the session is deleted only while no ingest of it runs
NextIngest ==
    \/ Tick
    \/ \E s \in StoreSessionIds : UpsertSession(s, None)
    \/ \E s \in StoreSessionIds : IncrementMessageCount(s)
    \/ \E s \in StoreSessionIds :
          AddMessage(s, MessageInput(nextMsgId).role, MessageInput(nextMsgId).content, None)
    \/ \E caller \in Callers, s \in StoreSessionIds : IngestLoad(caller, s)
    \/ \E caller \in Callers : IngestSteps(caller)
    \/ \E s \in StoreSessionIds, fault \in StoreFaults :
          /\ \A caller \in Callers : ~InFlight(caller)
          /\ s \in DOMAIN sessions
          /\ JournalDeleteSession(s, fault)

SpecIngest == Init /\ [][NextIngest]_vars

\* C34: no step of ingest_session(S), and no delete_session_chunks(S), adds,
\* removes or changes a Journal vector of another session, in any
\* interleaving with the ingests and deletes of the other sessions; and once
\* the ingest of a session has upserted, the session's chunks are exactly
\* those its own delete step left and its own upsert stored.
C34_OtherSessionsUntouched ==
    /\ [](\A caller \in DOMAIN ingests :
             ingests[caller].pc = "upserted"
               => SessionPoints(journal, ingests[caller].session_id)
                    = ingests[caller].kept \o ingests[caller].stored)
    /\ [][\A caller \in Callers, s \in SessionIds :
            (\/ IngestLoad(caller, s)
             \/ (IngestSteps(caller) /\ ingests[caller].session_id = s)
             \/ \E fault \in StoreFaults : JournalDeleteSession(s, fault))
               => \A o \in SessionIds \ {s} :
                     SessionPoints(journal', o) = SessionPoints(journal, o)]_vars

\* both workers have upserted the chunks of their sessions and neither has
\* returned yet; each session has the chunks of its own messages
C34_Witness ==
    /\ \A caller \in Callers : caller \in DOMAIN ingests /\ ingests[caller].pc = "upserted"
    /\ \A s \in SessionIds :
          /\ SessionPoints(journal, s) # <<>>
          /\ \A i \in 1..Len(SessionPoints(journal, s)) :
                SessionPoints(journal, s)[i].message_count = Len(GetMessages(s))
    /\ SessionPoints(journal, "s1")[1].text # SessionPoints(journal, "s2")[1].text

\* C35: when two ingest_session(S) invocations have run concurrently and
\* both have finished, the Journal vectors of S are those of a single
\* ingest: one ingested_at value, as many vectors as total_chunks says, no
\* chunk_index twice (stated for runs in which no store call has failed).
C35_ConcurrentIngestsLeaveOne ==
    (faults = 0 /\ \A caller \in Callers : ~InFlight(caller))
       => \A s \in StoreSessionIds :
          \A pts \in {SessionPoints(journal, s)} :
          \A i, j \in 1..Len(pts) :
             /\ pts[i].ingested_at = pts[j].ingested_at
             /\ Len(pts) = pts[i].total_chunks
             /\ i # j => pts[i].chunk_index # pts[j].chunk_index

\* the callers have counted every message of s and have upserted s after
\* the last append
Accounted(s) ==
    /\ sessions[s].message_count = Len(GetMessages(s))
    /\ \A i \in 1..Len(GetMessages(s)) :
          GetMessages(s)[i].timestamp <= sessions[s].last_activity

\* C36: whenever a session has ingested_at set and
\* has_new_messages_since_ingest is false for it, its Journal chunks were
\* built from all the messages stored for it now (message_count of every
\* payload is the number of stored messages): a message appended while
\* ingest_session runs is not left marked as ingested. Stated for sessions
\* whose appends were counted and followed by upsert_session, with no
\* ingest in flight and no store call failed.
C36_NoMessageMarkedIngested ==
    \A s \in DOMAIN sessions :
        (/\ faults = 0
         /\ \A caller \in Callers : ~InFlight(caller)
         /\ Accounted(s)
         /\ sessions[s].ingested_at # None
         /\ ~HasNewMessagesSinceIngest(s))
           => \A pts \in {SessionPoints(journal, s)} :
              \A i \in 1..Len(pts) : pts[i].message_count = Len(GetMessages(s))

\* no trace of session s is left in the Journal collection, the export
\* directory or the session store
NoTraceOf(s) ==
    /\ SessionPoints(journal, s) = <<>>
    /\ s \notin DOMAIN exports
    /\ s \notin DOMAIN sessions
    /\ RowsOf(messages, s) = <<>>

\* C38: JournalManager.delete_session(S) returns True only if afterwards no
\* Journal vector, no export file, no session row and no message of S is
\* left; when the removal from a store fails it returns False.
C38_DeletedMeansNoTrace ==
    [][\A s \in StoreSessionIds :
          ((\E fault \in StoreFaults : JournalDeleteSession(s, fault))
              /\ ret'.returned) => NoTraceOf(s)']_vars

----------------------------------------------------------------------------
(* BlobStorage (core/file_storage.py) *)

MaxBlobs == 3

\* _generate_blob_id: f"blob_{uuid.uuid4().hex[:12]}", a fresh id for every call
BlobIdTable == <<"blob_01", "blob_02", "blob_03", "blob_04", "blob_05", "blob_06">>
GenerateBlobId == BlobIdTable[nextBlob + 1]
BlobIds == {BlobIdTable[i] : i \in 1..Len(BlobIdTable)}

\* the file contents and the names save() is called with
FileContents == { <<"H","i",".">>, <<"O","n","e","."," ","T","w","o","."," ","X">> }
Filenames == { <<"a",".","T","X","T">>, <<"b",".","m","d">>,
               <<"R","E","A","D","M","E">>, <<".","e","n","v">>,
               <<"d","/","c",".","B","i","n">> }

\* PurePath.name: the last component of the path
PathName(path) ==
    LET slashes == {i \in 1..Len(path) : path[i] = "/"}
    IN  IF slashes = {} THEN path
        ELSE SubSeq(path, (CHOOSE i \in slashes : \A j \in slashes : j <= i) + 1, Len(path))

\* PurePath.suffix: from the last dot of the name, unless the name starts or
\* ends with it
Suffix(path) ==
    LET name == PathName(path)
        i == RFind(name, <<".">>, 0, Len(name))
    IN  IF 0 < i /\ i < Len(name) - 1 THEN Slice(name, i, Len(name)) ELSE <<>>

\* storage_path = self.storage_path / f"{blob_id}{file_extension}"
StoragePathIgnoringId(blob_id, file_extension) == <<"blob">> \o file_extension
StoragePath(blob_id, file_extension) == <<blob_id>> \o file_extension

\* the BlobInfo save() builds
MakeBlobInfo(blob_id, file_content, original_filename) ==
    LET file_extension == Lower(Suffix(original_filename))
    IN  [blob_id |-> blob_id,
         original_filename |-> original_filename,
         file_extension |-> file_extension,
         size_bytes |-> Len(file_content),
         created_at |-> clock,
         storage_path |-> StoragePath(blob_id, file_extension)]

WithEntry(map, key, value) ==
    [x \in DOMAIN map \cup {key} |-> IF x = key THEN value ELSE map[x]]

WithoutEntry(map, key) == [x \in DOMAIN map \ {key} |-> map[x]]

\* _load_manifest(): the dictionary in _manifest.json, or {} when the file
\* cannot be decoded
LoadManifest == IF torn THEN EmptyMap ELSE manifest

\* save(file_content, original_filename): the file is written, then the
\* manifest is loaded, extended and written back; returns the new blob_id
Save(file_content, original_filename) ==
    /\ nextBlob < MaxBlobs
    /\ LET blob_id == GenerateBlobId
           blob_info == MakeBlobInfo(blob_id, file_content, original_filename)
       IN  /\ disk' = WithEntry(disk, blob_info.storage_path, file_content)
           /\ manifest' = WithEntry(LoadManifest, blob_id, blob_info)
           /\ torn' = FALSE
           /\ saved' = WithEntry(saved, blob_id,
                           [file_content |-> file_content,
                            original_filename |-> original_filename])
           /\ blobRet' = [op |-> "save", blob_id |-> blob_id,
                          completed |-> TRUE, returned |-> TRUE]
    /\ nextBlob' = nextBlob + 1
    /\ UNCHANGED <<clock, sessVars, journalVars, workerVars, svcVars>>

\* the places where a call that writes the manifest can be cut short (the
\* process is killed, the disk is full): before _save_manifest opens the
\* file, or between its open(path, 'w'), which truncates the file, and the
\* end of json.dump
CrashPoints == {"before_manifest", "in_manifest"}

\* save() cut short after the blob file was written
SaveCrash(file_content, original_filename, point) ==
    /\ nextBlob < MaxBlobs
    /\ LET blob_id == GenerateBlobId
           blob_info == MakeBlobInfo(blob_id, file_content, original_filename)
       IN  /\ disk' = WithEntry(disk, blob_info.storage_path, file_content)
           /\ blobRet' = [op |-> "save", blob_id |-> blob_id,
                          completed |-> FALSE, returned |-> FALSE]
    /\ IF point = "in_manifest"
       THEN manifest' = EmptyMap /\ torn' = TRUE
       ELSE UNCHANGED <<manifest, torn>>
    /\ nextBlob' = nextBlob + 1
    /\ UNCHANGED <<clock, saved, sessVars, journalVars, workerVars, svcVars>>

\* get(blob_id): the storage path, or None
Get(blob_id) ==
    IF blob_id \notin DOMAIN LoadManifest THEN None
    ELSE IF LoadManifest[blob_id].storage_path \notin DOMAIN disk THEN None
    ELSE Some(LoadManifest[blob_id].storage_path)

\* get_info(blob_id): the BlobInfo, or None
GetInfo(blob_id) ==
    IF blob_id \notin DOMAIN LoadManifest THEN None ELSE Some(LoadManifest[blob_id])

\* the blob file is unlinked if it is there
Unlink(storage_path) ==
    IF storage_path \in DOMAIN disk THEN WithoutEntry(disk, storage_path) ELSE disk

\* delete(blob_id): for an id that is not in the manifest the call returns
\* False and changes nothing; otherwise the file is unlinked if it is there,
\* the entry is removed, the manifest written back, and the call returns True
Delete(blob_id) ==
    /\ IF blob_id \notin DOMAIN LoadManifest
       THEN /\ blobRet' = [op |-> "delete", blob_id |-> blob_id,
                           completed |-> TRUE, returned |-> FALSE]
            /\ UNCHANGED <<disk, manifest, torn>>
       ELSE /\ disk' = Unlink(LoadManifest[blob_id].storage_path)
            /\ manifest' = WithoutEntry(LoadManifest, blob_id)
            /\ torn' = FALSE
            /\ blobRet' = [op |-> "delete", blob_id |-> blob_id,
                           completed |-> TRUE, returned |-> TRUE]
    /\ saved' = WithoutEntry(saved, blob_id)
    /\ UNCHANGED <<clock, nextBlob, sessVars, journalVars, workerVars, svcVars>>

\* delete() of a blob of the manifest cut short after the unlink
DeleteCrash(blob_id, point) ==
    /\ blob_id \in DOMAIN LoadManifest
    /\ disk' = Unlink(LoadManifest[blob_id].storage_path)
    /\ IF point = "in_manifest"
       THEN manifest' = EmptyMap /\ torn' = TRUE
       ELSE UNCHANGED <<manifest, torn>>
    /\ blobRet' = [op |-> "delete", blob_id |-> blob_id,
                   completed |-> FALSE, returned |-> FALSE]
    /\ saved' = WithoutEntry(saved, blob_id)
    /\ UNCHANGED <<clock, nextBlob, sessVars, journalVars, workerVars, svcVars>>

NextBlob ==
    \/ \E file_content \in FileContents, original_filename \in Filenames :
          Save(file_content, original_filename)
    \/ \E blob_id \in BlobIds : Delete(blob_id)

SpecBlob == Init /\ [][NextBlob]_vars

IsSuffixOf(tail, text) ==
    /\ Len(tail) <= Len(text)
    /\ SubSeq(text, Len(text) - Len(tail) + 1, Len(text)) = tail

\* C8: for every blob saved and not deleted since, whatever other blobs were
\* saved or deleted, get(id) is a path whose file holds the bytes saved, and
\* get_info(id) has the filename given, size_bytes equal to the number of
\* bytes, and as file_extension the extension of the filename in lower case.
C8_SaveGetRoundTrip ==
    \A id \in DOMAIN saved :
        LET b == saved[id].file_content
            f == saved[id].original_filename
        IN  /\ Get(id) # None
            /\ disk[Val(Get(id))] = b
            /\ GetInfo(id) # None
            /\ Val(GetInfo(id)).original_filename = f
            /\ Val(GetInfo(id)).size_bytes = Len(b)
            /\ LET ext == Val(GetInfo(id)).file_extension
               IN  /\ \A i \in 1..Len(ext) : ext[i] \notin DOMAIN LowerTable
                   /\ IsSuffixOf(ext, Lower(f))
                   /\ ext # <<>> => ext[1] = "." /\ \A i \in 2..Len(ext) : ext[i] # "."
                   /\ ext = <<>> =>
                         \A i \in 2..(Len(PathName(f)) - 1) : PathName(f)[i] # "."

\* two blobs saved with different bytes under names with the same upper-case
\* extension are both there after a third blob was saved and deleted
C8_Witness ==
    \E id1, id2 \in DOMAIN saved :
        /\ id1 # id2
        /\ saved[id1].file_content # saved[id2].file_content
        /\ Val(GetInfo(id1)).file_extension = <<".","t","x","t">>
        /\ Val(GetInfo(id2)).file_extension = <<".","t","x","t">>
        /\ nextBlob > Cardinality(DOMAIN manifest)

----------------------------------------------------------------------------
(* chunk_text (rag/chunking.py) *)

\* _find_sentence_break: the for-loop over the separators from the k-th on
RECURSIVE FindSentenceBreakFrom(_, _, _, _)
FindSentenceBreakFrom(text, min_pos, end, k) ==
    IF k > Len(SentenceSeps) THEN end
    ELSE LET sep == SentenceSeps[k]
             pos == RFind(text, sep, min_pos, end)
             candidate == pos + Len(sep)
         IN  IF pos > min_pos /\ candidate > min_pos
             THEN candidate
             ELSE FindSentenceBreakFrom(text, min_pos, end, k + 1)

FindSentenceBreak(text, start, end) ==
    FindSentenceBreakFrom(text, start + ((end - start) \div 2), end, 1)

\* the end of the window that starts at start (prefer_paragraph_breaks = True)
WindowEndWide(text, start, chunk_size) ==
    LET end == start + chunk_size + 1
    IN  IF end < Len(text)
        THEN LET para_break == RFind(text, NL2, start + (chunk_size \div 2), end)
             IN  IF para_break > start
                 THEN para_break + 2
                 ELSE FindSentenceBreak(text, start, end)
        ELSE end
WindowEnd(text, start, chunk_size) ==
    LET end == start + chunk_size
    IN  IF end < Len(text)
        THEN LET para_break == RFind(text, NL2, start + (chunk_size \div 2), end)
             IN  IF para_break > start
                 THEN para_break + 2
                 ELSE FindSentenceBreak(text, start, end)
        ELSE end

RECURSIVE ChunkLoop(_, _, _, _)
ChunkLoop(text, start, chunk_size, overlap) ==
    IF start < Len(text)
    THEN LET end == WindowEnd(text, start, chunk_size)
             chunk == Strip(Slice(text, start, end))
         IN  (IF chunk # <<>> THEN <<chunk>> ELSE <<>>)
                 \o ChunkLoop(text, end - overlap, chunk_size, overlap)
    ELSE <<>>

ChunkText(text, chunk_size, overlap) ==
    IF Len(text) <= chunk_size
    THEN (IF Strip(text) # <<>> THEN <<text>> ELSE <<>>)
    ELSE ChunkLoop(text, 0, chunk_size, overlap)

----------------------------------------------------------------------------
(* The document worker (rag/workers.py) behind the arq queue (core/queue.py) *)

MaxDocs == 2
MaxJobs == 2

\* config.library_chunk_size / library_chunk_overlap (W, O)
LibraryChunkSize == 8
LibraryChunkOverlap == 2

SupportedExtensions ==
    { <<".","t","x","t">>, <<".","m","d">>, <<".","p","d","f">>,
      <<".","d","o","c","x">> }

\* DocumentParser.parse on a stored file; the files of the model are plain
\* text, read as UTF-8, or of an unsupported type
ParseAnyExtension(file_path) ==
    LET extension == Lower(Suffix(file_path))
    IN  Some([text |-> disk[file_path],
              page_count |-> 1,
              file_type |-> IF extension = <<>> THEN <<>> ELSE Tail(extension),
              original_filename |-> PathName(file_path)])
Parse(file_path) ==
    LET extension == Lower(Suffix(file_path))
    IN  IF extension \notin SupportedExtensions THEN None
        ELSE Some([text |-> disk[file_path],
                   page_count |-> 1,
                   file_type |-> Tail(extension),
                   original_filename |-> PathName(file_path)])

\* DocumentIngester._preprocess_text: whitespace normalisation, pure and
\* deterministic
PreprocessText(text) == Strip(text)

\* DocumentIngester._chunk_text(processed_text, max_chunk_size, overlap)
LibraryChunks(text) == ChunkText(text, LibraryChunkSize, LibraryChunkOverlap)

\* DocumentRetriever.create_points: one point, with a fresh id, per chunk
CreatePoints(documents, start_doc_id, metadata) ==
    [idx \in 1..Len(documents) |->
        [text |-> documents[idx],
         doc_id |-> start_doc_id + (idx - 1),
         chunk_id |-> idx - 1,
         ingested_at |-> clock,
         blob_id |-> metadata.blob_id,
         original_filename |-> metadata.original_filename]]

\* rag.add_documents(chunks, metadata): embed the chunks, build the points and
\* upsert them; returns the number of chunks indexed
AddDocuments(coll, chunks, metadata) ==
    [coll |-> coll \o CreatePoints(chunks, 0, metadata), count |-> Len(chunks)]

\* process_document(ctx, blob_id): the exception it raises, or the dict it
\* returns together with the Library collection it leaves
ProcessDocument(blob_id) ==
    LET file_path == Get(blob_id)
        blob_info == GetInfo(blob_id)
    IN  IF file_path = None
        THEN [raised |-> TRUE, error |-> <<"Blob not found: ", blob_id>>,
              coll |-> library]
        ELSE LET original_filename ==
                     IF blob_info # None THEN Val(blob_info).original_filename
                     ELSE PathName(Val(file_path))
                 parsed == Parse(Val(file_path))
             IN  IF parsed = None
                 THEN [raised |-> TRUE,
                       error |-> <<"Failed to parse document: ">> \o Val(file_path),
                       coll |-> library]
                 ELSE LET processed_text == PreprocessText(Val(parsed).text)
                          chunks == LibraryChunks(processed_text)
                          metadata == [blob_id |-> blob_id,
                                       original_filename |-> original_filename]
                          added == AddDocuments(library, chunks, metadata)
                      IN  [raised |-> FALSE,
                           result |-> [blob_id |-> blob_id,
                                       chunks_indexed |-> added.count,
                                       file_type |-> Val(parsed).file_type,
                                       original_filename |-> Val(parsed).original_filename,
                                       page_count |-> Val(parsed).page_count],
                           coll |-> added.coll]

\* pool.enqueue_job("process_document", blob_id): arq gives the job a fresh id
\* and stores its definition under it
Enqueue(blob_id) ==
    /\ Cardinality(DOMAIN jobs) < MaxJobs
    /\ jobs' = WithEntry(jobs, Cardinality(DOMAIN jobs) + 1,
                   [function |-> "process_document", blob_id |-> blob_id,
                    status |-> "queued", enqueue_time |-> clock, finished |-> None])
    /\ UNCHANGED <<clock, sessVars, journalVars, blobVars, library, runs, svcVars>>

\* an arq worker takes a queued job
StartJob(job_id) ==
    /\ job_id \in DOMAIN jobs
    /\ jobs[job_id].status = "queued"
    /\ jobs' = [jobs EXCEPT ![job_id].status = "in_progress"]
    /\ UNCHANGED <<clock, sessVars, journalVars, blobVars, library, runs, svcVars>>

\* the worker runs process_document for the job; arq stores what the function
\* returned, or the exception it raised, as the job's result
RunJob(job_id) ==
    /\ job_id \in DOMAIN jobs
    /\ jobs[job_id].status = "in_progress"
    /\ LET blob_id == jobs[job_id].blob_id
           out == ProcessDocument(blob_id)
       IN  /\ library' = out.coll
           /\ jobs' = [jobs EXCEPT
                          ![job_id].status = "complete",
                          ![job_id].finished =
                              IF out.raised
                              THEN Some([success |-> FALSE, result |-> out.error])
                              ELSE Some([success |-> TRUE, result |-> out.result])]
           /\ runs' = IF out.raised THEN runs
                      ELSE WithEntry(runs, blob_id,
                               IF blob_id \in DOMAIN runs THEN runs[blob_id] + 1 ELSE 1)
    /\ UNCHANGED <<clock, sessVars, journalVars, blobVars, svcVars>>

\* arq's Job.status(): the name of its JobStatus
ArqStatus(job_id) ==
    IF job_id \in DOMAIN jobs THEN jobs[job_id].status ELSE "not_found"

\* arq's Job.info(): the job's definition, with its result once there is one
ArqInfo(job_id) ==
    IF job_id \notin DOMAIN jobs THEN None
    ELSE Some([enqueue_time |-> jobs[job_id].enqueue_time,
               finished |-> jobs[job_id].finished])

\* status_map.get(status_name, 'unknown')
StatusMap(status_name) ==
    CASE status_name = "deferred" -> "queued"
      [] status_name = "queued" -> "queued"
      [] status_name = "in_progress" -> "processing"
      [] status_name = "complete" -> "completed"
      [] status_name = "not_found" -> "not_found"
      [] OTHER -> "unknown"

\* get_job_status(job_id): None, or the JobStatus
GetJobStatus(job_id) ==
    LET status == ArqStatus(job_id)
        info == ArqInfo(job_id)
    IN  IF info = None THEN None
        ELSE LET finished == Val(info).finished
                 error_msg == IF finished # None /\ ~Val(finished).success
                              THEN Some(Val(finished).result)
                              ELSE None
             IN  Some([job_id |-> job_id,
                       status |-> StatusMap(status),
                       created_at |-> Val(info).enqueue_time,
                       completed_at |-> None,
                       error |-> error_msg])

\* the documents uploaded to the library, and the ids jobs are enqueued for:
\* those of the uploads and one of no blob
DocumentUploads ==
    { [file_content |-> <<"O","n","e","."," ","T","w","o","."," ","X">>,
       original_filename |-> <<"a",".","T","X","T">>],
      [file_content |-> <<"H","i",".">>, original_filename |-> <<"b",".","m","d">>],
      [file_content |-> <<"H","i",".">>, original_filename |-> <<"R","E","A","D","M","E">>] }

JobBlobIds == {BlobIdTable[i] : i \in 1..(MaxDocs + 1)}
JobIds == 1..(MaxJobs + 1)

NextLibrary ==
    \/ \E doc \in DocumentUploads :
          nextBlob < MaxDocs /\ Save(doc.file_content, doc.original_filename)
    \/ \E blob_id \in JobBlobIds : Delete(blob_id)
    \/ \E blob_id \in JobBlobIds : Enqueue(blob_id)
    \/ \E job_id \in JobIds : StartJob(job_id)
    \/ \E job_id \in JobIds : RunJob(job_id)

SpecLibrary == Init /\ [][NextLibrary]_vars

\* the texts of the Library points with blob_id = B, in upsert order
LibraryTextsOf(blob_id) ==
    LET mine == SelectSeq(library, LAMBDA p : p.blob_id = blob_id)
    IN  [i \in 1..Len(mine) |-> mine[i].text]

\* C5: however many times process_document(B) has run to completion for a
\* blob B that is still stored, the Library collection holds for B exactly the
\* vectors of one run, one for every chunk of the document.
C5_WorkerIdempotentOnBlob ==
    \A blob_id \in DOMAIN runs :
        (runs[blob_id] >= 1 /\ Get(blob_id) # None) =>
            LibraryTextsOf(blob_id)
                = LibraryChunks(PreprocessText(disk[Val(Get(blob_id))]))

\* C9: a job whose function raised is reported as 'failed' with the exception
\* text as error, a job reported 'completed' is one whose function returned,
\* and a job id the queue does not know is observed as not found.
C9_FailedJobsReportedFailed ==
    \A job_id \in JobIds :
        LET reported == GetJobStatus(job_id)
        IN  IF job_id \notin DOMAIN jobs
            THEN reported = None \/ Val(reported).status = "not_found"
            ELSE /\ reported # None
                 /\ Val(reported).status \in {"queued", "processing", "completed", "failed"}
                 /\ (jobs[job_id].finished # None /\ ~Val(jobs[job_id].finished).success)
                       => /\ Val(reported).status = "failed"
                          /\ Val(reported).error = Some(Val(jobs[job_id].finished).result)
                 /\ Val(reported).status = "completed"
                       => (jobs[job_id].finished # None /\ Val(jobs[job_id].finished).success)

----------------------------------------------------------------------------
(* The worker on blobs that are missing, half deleted or of an unknown type *)

NextWorker ==
    \/ NextLibrary
    \/ \E blob_id \in JobBlobIds : DeleteCrash(blob_id, "before_manifest")

SpecWorker == Init /\ [][NextWorker]_vars

\* the blob has no manifest entry, or its file is not on disk
BlobMissing(blob_id) ==
    \/ torn
    \/ blob_id \notin DOMAIN manifest
    \/ \A path \in DOMAIN disk : path # manifest[blob_id].storage_path

\* the blob is stored and its extension is none of .txt, .md, .pdf, .docx
BlobOfUnknownType(blob_id) ==
    /\ ~BlobMissing(blob_id)
    /\ manifest[blob_id].file_extension \notin
          { <<".","t","x","t">>, <<".","m","d">>, <<".","p","d","f">>,
            <<".","d","o","c","x">> }

\* C22: a run of process_document(B) for a blob without manifest entry or
\* without file, or for a blob whose extension is not .txt, .md, .pdf or
\* .docx, raises: the job's result is a failure, never a returned dict, and
\* the Library collection is left as it was.
C22_BadBlobFailsWithoutVectors ==
    [][\A job_id \in DOMAIN jobs :
          (/\ jobs[job_id].status = "in_progress"
           /\ jobs'[job_id].status = "complete"
           /\ \/ BlobMissing(jobs[job_id].blob_id)
              \/ BlobOfUnknownType(jobs[job_id].blob_id))
             => /\ jobs'[job_id].finished # None
                /\ ~Val(jobs'[job_id].finished).success
                /\ library' = library
                /\ runs' = runs]_vars

\* a job has failed on a blob that is in the manifest (its file was removed
\* by a delete that was cut short, or it is of an unknown type) while the
\* Library holds the chunks of another blob
C22_Witness ==
    \E job_id \in DOMAIN jobs :
        /\ jobs[job_id].status = "complete"
        /\ ~Val(jobs[job_id].finished).success
        /\ jobs[job_id].blob_id \in DOMAIN manifest
        /\ library # <<>>

----------------------------------------------------------------------------
(* The context assembler (core/services/chat_service.py) and the Journal   *)
(* retriever (JournalManager.get_context_for_chat)                         *)

\* config.chat_journal_top_k and config.chat_library_similarity_threshold
\* (scores are in hundredths)
JournalTopK == 2
SimilarityThreshold == 15

Queries == { <<"H","i">>, <<"N","o","?">> }

CharsOf(text) == {text[i] : i \in 1..Len(text)}

\* the score Qdrant gives a point for a query: the similarity of the two
\* embeddings, in hundredths; texts that share more characters embed closer
Similarity(query, text) ==
    LET q == CharsOf(Lower(query))
        d == CharsOf(Lower(text))
    IN  IF q \cup d = {} THEN 0
        ELSE (100 * Cardinality(q \cap d)) \div Cardinality(q \cup d)

\* the limit best of the candidate points, best first (equal scores in
\* upsert order); scores[i] is the score of point i
RECURSIVE BestFirst(_, _, _, _)
BestFirst(coll, scores, candidates, limit) ==
    IF candidates = {} \/ limit = 0 THEN <<>>
    ELSE LET best == CHOOSE i \in candidates :
                         \A j \in candidates :
                            \/ scores[i] > scores[j]
                            \/ scores[i] = scores[j] /\ i <= j
         IN  <<[payload |-> coll[best], score |-> scores[best]]>>
                 \o BestFirst(coll, scores, candidates \ {best}, limit - 1)

\* the score of every point of the collection for the query
ScoresOf(coll, query) == [i \in 1..Len(coll) |-> Similarity(query, coll[i].text)]

\* client.query_points(collection, query=query_vector, query_filter, limit)
QueryPoints(coll, query, session_filter, limit) ==
    CHOOSE hits \in
        { BestFirst(coll, scores,
                    {i \in 1..Len(coll) :
                        session_filter = None \/ coll[i].session_id = Val(session_filter)},
                    limit) : scores \in {ScoresOf(coll, query)} } : TRUE

\* get_context_for_chat: the hits that pass the threshold; the filter is
\* built only `if session_id:`
JournalHitsUnfiltered(query, top_k, similarity_threshold, session_id) ==
    QueryPoints(journal, query,
                IF session_id # None /\ Val(session_id) # "" THEN session_id ELSE None,
                top_k)
JournalHits(query, top_k, similarity_threshold, session_id) ==
    LET query_filter == IF session_id # None /\ Val(session_id) # ""
                        THEN session_id ELSE None
        results == QueryPoints(journal, query, query_filter, top_k)
    IN  SelectSeq(results, LAMBDA hit : hit.score >= similarity_threshold)

\* the (text, score) tuples get_context_for_chat returns; an exception of the
\* embedder or of the store is caught and gives the empty list
GetContextForChat(query, top_k, similarity_threshold, session_id, ok) ==
    IF ~ok THEN <<>>
    ELSE LET filtered == JournalHits(query, top_k, similarity_threshold, session_id)
         IN  [i \in 1..Len(filtered) |-> <<filtered[i].payload.text, filtered[i].score>>]

\* _format_context_text
FormatContextText(results) == Join(NL2, [i \in 1..Len(results) |-> results[i][1]])

\* the session_id _retrieve_journal_context hands to get_context_for_chat
RetrieveSessionFilter(session_id) == None

\* what can go wrong in a retrieval: nothing, the search (embedder or store),
\* or getting hold of the context engine
RetrievalFaults == {"none", "search", "engine"}

\* _retrieve_journal_context(query, session_id, limit): results and context
\* text; every exception is caught and gives ([], None)
RetrieveJournalContext(query, session_id, limit, fault) ==
    IF fault = "engine"
    THEN [raised |-> FALSE, results |-> <<>>, context_text |-> None]
    ELSE LET results == GetContextForChat(query, limit, SimilarityThreshold,
                                          RetrieveSessionFilter(session_id),
                                          fault = "none")
         IN  IF results = <<>>
             THEN [raised |-> FALSE, results |-> <<>>, context_text |-> None]
             ELSE [raised |-> FALSE, results |-> results,
                   context_text |-> Some(FormatContextText(results))]

LibraryHeader == <<"[KNOWLEDGE BASE - Documents from your personal library]\n">>
JournalHeader == <<"[PAST CONVERSATIONS - Previous chat history that may be relevant]\n">>

\* _merge_context
MergeContextAllHeaders(library_context, journal_context) ==
    Some(Join(NL2,
        <<LibraryHeader \o (IF Truthy(library_context) THEN Val(library_context) ELSE <<>>),
          JournalHeader \o (IF Truthy(journal_context) THEN Val(journal_context) ELSE <<>>)>>))
MergeContextJournalFirst(library_context, journal_context) ==
    LET parts == (IF Truthy(journal_context)
                  THEN <<JournalHeader \o Val(journal_context)>> ELSE <<>>)
                 \o (IF Truthy(library_context)
                     THEN <<LibraryHeader \o Val(library_context)>> ELSE <<>>)
    IN  IF parts = <<>> THEN None ELSE Some(Join(NL2, parts))
MergeContext(library_context, journal_context) ==
    LET parts == (IF Truthy(library_context)
                  THEN <<LibraryHeader \o Val(library_context)>> ELSE <<>>)
                 \o (IF Truthy(journal_context)
                     THEN <<JournalHeader \o Val(journal_context)>> ELSE <<>>)
    IN  IF parts = <<>> THEN None ELSE Some(Join(NL2, parts))

\* format_prompt(template, rag_context=..., user_message=...): str.format on
\* a template whose replacement fields are {rag_context} and {user_message};
\* a field is one element of the template
RECURSIVE FormatPrompt(_, _, _)
FormatPrompt(template, rag_context, user_message) ==
    IF template = <<>> THEN <<>>
    ELSE (IF Head(template) = "{rag_context}" THEN rag_context
          ELSE IF Head(template) = "{user_message}" THEN user_message
          ELSE <<Head(template)>>)
         \o FormatPrompt(Tail(template), rag_context, user_message)

\* _format_user_message
FormatUserMessage(user_message, context_text, rag_prompt_template) ==
    IF Truthy(context_text) /\ Truthy(rag_prompt_template)
    THEN FormatPrompt(Val(rag_prompt_template), Val(context_text), user_message)
    ELSE IF Truthy(context_text)
    THEN <<"<CONTEXT_FOR_REFERENCE>\nThe following information is provided as reference context ONLY. It may or may not be relevant to answering the user's question below.\n\n">>
         \o Val(context_text)
         \o <<"\n</CONTEXT_FOR_REFERENCE>\n\n======================================\nUSER'S ACTUAL QUESTION (ANSWER THIS):\n======================================\n">>
         \o user_message
    ELSE user_message

----------------------------------------------------------------------------
(* The near-duplicate query cache of the Library side                      *)
(* (ChatService._class_cache)                                              *)

LibraryTopK == 2
RecentWindow == 5
MaxCacheSize == 20

\* str.split(): the maximal runs of characters that are not whitespace
RECURSIVE SplitFrom(_, _)
SplitFrom(text, i) ==
    IF i >= Len(text) THEN <<>>
    ELSE IF IsSpace(text[i + 1]) THEN SplitFrom(text, i + 1)
    ELSE LET ends == {j \in (i + 1)..Len(text) :
                         j = Len(text) \/ IsSpace(text[j + 1])}
             j == CHOOSE e \in ends : \A f \in ends : e <= f
         IN  <<Slice(text, i, j)>> \o SplitFrom(text, j)

Split(text) == SplitFrom(text, 0)

\* set(text.split())
Keywords(text) == LET words == Split(text) IN {words[i] : i \in 1..Len(words)}

\* query.lower().strip()
NormalizeQuery(query) == Strip(Lower(query))

\* union > 0 and intersection / union > 0.5
NearDuplicate(query_keywords, cached_keywords) ==
    LET intersection == Cardinality(query_keywords \cap cached_keywords)
        union == Cardinality(query_keywords \cup cached_keywords)
    IN  union > 0 /\ 2 * intersection > union

\* the entries _get_cached_context looks at: the last RecentWindow
RecentEntriesAll(c) == 1..Len(c)
RecentEntries(c) == {i \in 1..Len(c) : i > Len(c) - RecentWindow}

\* _get_cached_context(query): the position of the entry it returns, the
\* last of the recent entries whose keywords are near the query's; 0 for None
CachedEntry(c, query) ==
    LET query_keywords == Keywords(NormalizeQuery(query))
        near == {i \in RecentEntries(c) :
                    NearDuplicate(query_keywords, Keywords(Lower(c[i].query)))}
    IN  IF near = {} THEN 0 ELSE CHOOSE i \in near : \A j \in near : j <= i

\* OrderedDict.move_to_end
MoveToEndStays(c, i) == c
MoveToEnd(c, i) ==
    [k \in 1..Len(c) |-> IF k < i THEN c[k] ELSE IF k < Len(c) THEN c[k + 1] ELSE c[i]]

\* _cache_context(query, results): the oldest entry is dropped from a full
\* cache, the results are stored under the normalized query, and that entry
\* becomes the most recent
CacheContext(c, query, results) ==
    LET normalized_query == NormalizeQuery(query)
        room == IF Len(c) >= MaxCacheSize THEN Tail(c) ELSE c
        at == {i \in 1..Len(room) : room[i].query = normalized_query}
        entry == [query |-> normalized_query, results |-> results]
    IN  IF at = {} THEN Append(room, entry)
        ELSE LET i == CHOOSE k \in at : TRUE
             IN  MoveToEnd([room EXCEPT ![i] = entry], i)

\* the Library engine's get_context_for_chat(query, top_k,
\* similarity_threshold): the top_k nearest chunks of the Library collection
\* that pass the threshold, best first
LibraryGetContextForChat(query, top_k, similarity_threshold) ==
    LET hits == SelectSeq(QueryPoints(library, query, None, top_k),
                          LAMBDA hit : hit.score >= similarity_threshold)
    IN  [i \in 1..Len(hits) |-> <<hits[i].payload.text, hits[i].score>>]

\* _retrieve_library_direct: an exception of the engine is caught and gives []
RetrieveLibraryDirectUncaught(query, top_k, similarity_threshold, fault) ==
    [raised |-> fault # "none",
     results |-> IF fault = "none"
                 THEN LibraryGetContextForChat(query, top_k, similarity_threshold)
                 ELSE <<>>]
RetrieveLibraryDirect(query, top_k, similarity_threshold, fault) ==
    [raised |-> FALSE,
     results |-> IF fault = "none"
                 THEN LibraryGetContextForChat(query, top_k, similarity_threshold)
                 ELSE <<>>]

\* _retrieve_library_context(query, top_k, similarity_threshold): results,
\* context text, the cache it leaves, and whether the engine was asked
RetrieveLibraryContext(query, top_k, similarity_threshold, use_cache, fault) ==
    LET hit == IF use_cache /\ cache # <<>> THEN CachedEntry(cache, query) ELSE 0
        direct == RetrieveLibraryDirect(query, top_k, similarity_threshold, fault)
    IN  IF hit # 0
        THEN [raised |-> FALSE,
              results |-> cache[hit].results,
              context_text |-> Some(FormatContextText(cache[hit].results)),
              cache |-> MoveToEnd(cache, hit),
              hit |-> hit,
              searched |-> FALSE]
        ELSE [raised |-> direct.raised,
              results |-> direct.results,
              context_text |-> IF direct.results # <<>>
                               THEN Some(FormatContextText(direct.results))
                               ELSE None,
              cache |-> IF use_cache /\ direct.results # <<>> /\ ~direct.raised
                        THEN CacheContext(cache, query, direct.results)
                        ELSE cache,
              hit |-> 0,
              searched |-> TRUE]

\* rag.add_documents(chunks, metadata) called on the empty Library
\* collection: the collection is filled once
DocumentChunks == { << <<"a"," ","b"," ","c">>, <<"d"," ","e"," ","f">> >> }

AddDocumentsCall(chunks) ==
    /\ library = <<>>
    /\ library' = AddDocuments(library, chunks,
                       [blob_id |-> "blob_01",
                        original_filename |-> <<"a",".","T","X","T">>]).coll
    /\ UNCHANGED <<clock, sessVars, journalVars, blobVars, jobs, runs, svcVars>>

----------------------------------------------------------------------------
(* prepare_chat_message                                                    *)

\* journal.get_context_for_chat(query, top_k, similarity_threshold,
\* session_id) called on its own; the list it returns is kept in chat with
\* the hits the store gave for the query
GetContextCall(query, top_k, similarity_threshold, session_id, ok) ==
    /\ \E hits \in {IF ok
                     THEN QueryPoints(journal, query,
                              IF session_id # None /\ Val(session_id) # ""
                              THEN session_id ELSE None, top_k)
                     ELSE <<>>} :
          chat' = [op |-> "get_context_for_chat",
                   query |-> query,
                   top_k |-> top_k,
                   similarity_threshold |-> similarity_threshold,
                   session_id |-> session_id,
                   ok |-> ok,
                   store_hits |-> [i \in 1..Len(hits) |->
                                      <<hits[i].payload.text, hits[i].score>>],
                   returned |-> GetContextForChat(query, top_k, similarity_threshold,
                                                  session_id, ok)]
    /\ UNCHANGED <<clock, sessVars, journalVars, blobVars, workerVars, cache, recency, store, ck, stepVars>>

\* the optional arguments of prepare_chat_message; None stands for the
\* value of the configuration
NoArguments ==
    [library_top_k |-> None, journal_top_k |-> None,
     similarity_threshold |-> None, context_prompt_template |-> None]

\* what prepare_chat_message returns when context is switched off
RawResult(user_message, rag_prompt_template) ==
    [op |-> "prepare_chat_message",
     raised |-> FALSE,
     chat_context_enabled |-> FALSE,
     user_message |-> user_message,
     use_library |-> FALSE,
     use_journal |-> FALSE,
     session_id |-> None,
     library_top_k |-> LibraryTopK,
     similarity_threshold |-> SimilarityThreshold,
     context_prompt_template |-> rag_prompt_template,
     formatted_message |-> FormatUserMessage(user_message, None, rag_prompt_template),
     library_results |-> <<>>,
     library_context_text |-> None,
     library_searched |-> FALSE,
     journal_searched |-> FALSE,
     library_fault |-> "none",
     journal_fault |-> "none",
     journal_results |-> <<>>,
     journal_context_text |-> None,
     journal_sources |-> <<>>]

\* the order of last use of the cached queries after a call that used the
\* entry of query key (<<>> when it used none) and left the cache c
RecencyAfter(order, c, key) ==
    LET used == IF key = <<>> THEN order
                ELSE SelectSeq(order, LAMBDA k : k # key[1]) \o key
    IN  SelectSeq(used, LAMBDA k : \E i \in 1..Len(c) : c[i].query = k)

\* prepare_chat_message(user_message, use_library, use_journal, session_id,
\* library_top_k, journal_top_k, similarity_threshold, context_prompt_template)
\* under a configuration (chat_context_enabled, chat_library_use_cache) and
\* with the retrieval faults of this call; the ChatMessageResult is kept in
\* chat, with the session of the chunk every journal result was taken from
\* and whether the Library engine and the Journal were asked
PrepareChatMessageCall(user_message, use_library, use_journal, session_id, arguments, config, library_fault, journal_fault) ==
    LET no_side == [raised |-> FALSE, results |-> <<>>, context_text |-> None,
                    cache |-> cache, hit |-> 0, searched |-> FALSE]
        library_top_k == IF arguments.library_top_k # None
                         THEN Val(arguments.library_top_k) ELSE LibraryTopK
        journal_top_k == IF arguments.journal_top_k # None
                         THEN Val(arguments.journal_top_k) ELSE JournalTopK
        similarity_threshold == IF arguments.similarity_threshold # None
                                THEN Val(arguments.similarity_threshold)
                                ELSE SimilarityThreshold
    IN  /\ IF ~config.chat_context_enabled
           THEN /\ chat' = RawResult(user_message, arguments.context_prompt_template)
                /\ UNCHANGED <<cache, recency>>
           ELSE \E library_side \in
                     {IF use_library
                      THEN RetrieveLibraryContext(user_message, library_top_k,
                               similarity_threshold, config.chat_library_use_cache,
                               library_fault)
                      ELSE no_side} :
                \E journal_side \in
                     {IF use_journal /\ ~library_side.raised
                      THEN RetrieveJournalContext(user_message, session_id,
                                                  journal_top_k, journal_fault)
                      ELSE no_side} :
                \E hits \in
                     {IF use_journal /\ journal_fault = "none"
                      THEN JournalHits(user_message, journal_top_k, SimilarityThreshold,
                                       RetrieveSessionFilter(session_id))
                      ELSE <<>>} :
                   /\ cache' = library_side.cache
                   /\ recency' = RecencyAfter(recency, library_side.cache,
                                     IF library_side.hit # 0
                                     THEN <<cache[library_side.hit].query>>
                                     ELSE IF /\ library_side.searched
                                             /\ config.chat_library_use_cache
                                             /\ library_side.results # <<>>
                                     THEN <<NormalizeQuery(user_message)>>
                                     ELSE <<>>)
                   /\ IF library_side.raised \/ journal_side.raised
                      THEN chat' = [RawResult(user_message,
                                              arguments.context_prompt_template)
                                       EXCEPT !.raised = TRUE,
                                       !.chat_context_enabled = TRUE,
                                       !.use_library = use_library,
                                       !.use_journal = use_journal,
                                       !.session_id = session_id,
                                       !.library_fault = library_fault,
                                       !.journal_fault = journal_fault]
                      ELSE chat' =
                             [op |-> "prepare_chat_message",
                              raised |-> FALSE,
                              chat_context_enabled |-> TRUE,
                              user_message |-> user_message,
                              use_library |-> use_library,
                              use_journal |-> use_journal,
                              session_id |-> session_id,
                              library_top_k |-> library_top_k,
                              similarity_threshold |-> similarity_threshold,
                              context_prompt_template |->
                                  arguments.context_prompt_template,
                              formatted_message |->
                                  FormatUserMessage(user_message,
                                      MergeContext(library_side.context_text,
                                                   journal_side.context_text),
                                      arguments.context_prompt_template),
                              library_results |-> library_side.results,
                              library_context_text |-> library_side.context_text,
                              library_searched |-> library_side.searched,
                              journal_searched |->
                                  use_journal /\ journal_fault # "engine",
                              library_fault |-> library_fault,
                              journal_fault |-> journal_fault,
                              journal_results |-> journal_side.results,
                              journal_context_text |-> journal_side.context_text,
                              journal_sources |->
                                  [i \in 1..Len(hits) |-> hits[i].payload.session_id]]
        /\ UNCHANGED <<clock, sessVars, journalVars, blobVars, workerVars, store, ck,
                       stepVars>>

\* prepare_chat_message with its optional arguments left out
PrepareChatMessage(user_message, use_library, use_journal, session_id, config, library_fault, journal_fault) ==
    PrepareChatMessageCall(user_message, use_library, use_journal, session_id,
                           NoArguments, config, library_fault, journal_fault)

\* the configurations prepare_chat_message runs under
Configs == [chat_context_enabled : BOOLEAN, chat_library_use_cache : BOOLEAN]
DefaultConfig == [chat_context_enabled |-> TRUE, chat_library_use_cache |-> TRUE]

NextChat ==
    \/ \E s \in SessionIds : UpsertSession(s, None)
    \/ \E s \in SessionIds :
          AddMessage(s, MessageInput(nextMsgId).role, MessageInput(nextMsgId).content, None)
    \/ \E s \in SessionIds : IngestSession(s) /\ faults' = faults
    \/ \E user_message \in Queries, use_journal \in BOOLEAN,
          session_id \in {None} \cup {Some(s) : s \in SessionIds} :
          PrepareChatMessage(user_message, FALSE, use_journal, session_id,
                             DefaultConfig, "none", "none")

SpecChat == Init /\ [][NextChat]_vars

\* C10: when prepare_chat_message is called with a session_id and the Journal
\* in use, every entry of journal_results comes from a chunk of that session.
C10_JournalFilteredBySession ==
    (chat.op = "prepare_chat_message" /\ chat.use_journal /\ chat.session_id # None)
        => \A i \in 1..Len(chat.journal_sources) :
              chat.journal_sources[i] = Val(chat.session_id)

----------------------------------------------------------------------------
(* The query cache under repeated Library retrievals *)

CacheQueries == { <<"a"," ","b">>, <<" ","A"," ","b"," "," ","c"," ">>,
                  <<"d">>, <<"e">>, <<"f">>, <<"d"," ","e">>, <<"d"," ","f">> }

NextCache ==
    \/ \E chunks \in DocumentChunks : AddDocumentsCall(chunks)
    \/ \E user_message \in CacheQueries :
          PrepareChatMessage(user_message, TRUE, FALSE, None,
                             DefaultConfig, "none", "none")

SpecCache == Init /\ [][NextCache]_vars

\* the Jaccard similarity of the lowercased whitespace tokens of two queries
\* is above one half
JaccardAboveHalf(q1, q2) ==
    \E t1 \in {Keywords(Lower(q1))}, t2 \in {Keywords(Lower(q2))} :
        /\ t1 \cup t2 # {}
        /\ 2 * Cardinality(t1 \cap t2) > Cardinality(t1 \cup t2)

\* the positions in the cache of the 5 most recently used entries that are
\* near duplicates of the query
NearRecent(query) ==
    {i \in 1..Len(cache) : i > Len(cache) - 5 /\ JaccardAboveHalf(query, cache[i].query)}

\* C11: with the cache enabled, a Library retrieval for a query that is a near
\* duplicate (token Jaccard > 0.5) of one of the 5 most recently used cached
\* queries returns the results of such an entry (the most recently used one)
\* without asking the engine, and that entry becomes the most recently used;
\* a query that is a near duplicate of none of the 5 is searched for.
C11_CacheHitReusesResults ==
    [][ (library' = library) =>
          \A near \in {NearRecent(chat'.user_message)} :
              /\ near # {} =>
                    LET i == CHOOSE k \in near : \A j \in near : j <= k
                    IN  /\ chat'.library_results = cache[i].results
                        /\ ~chat'.library_searched
                        /\ Len(cache') = Len(cache)
                        /\ cache'[Len(cache')] = cache[i]
              /\ near = {} => chat'.library_searched ]_vars

\* a query hit an entry it is not equal to while the cache held more entries
\* than the recent window
C11_Witness ==
    /\ chat.op = "prepare_chat_message"
    /\ chat.use_library
    /\ ~chat.library_searched
    /\ Len(cache) > 5
    /\ NormalizeQuery(chat.user_message) # cache[Len(cache)].query

----------------------------------------------------------------------------
(* Retrieval and context assembly over a filled Journal and Library *)

\* the thresholds and limits get_context_for_chat is called with
Thresholds == {0, SimilarityThreshold, 40, 101}
TopKs == 0..JournalTopK

NextRetrieve ==
    \/ \E s \in StoreSessionIds : UpsertSession(s, None)
    \/ \E s \in StoreSessionIds :
          AddMessage(s, MessageInput(nextMsgId).role, MessageInput(nextMsgId).content, None)
    \/ \E s \in StoreSessionIds : IngestSession(s) /\ faults' = faults
    \/ \E query \in Queries, top_k \in TopKs, similarity_threshold \in Thresholds,
          session_id \in {None} \cup {Some(s) : s \in StoreSessionIds}, ok \in BOOLEAN :
          GetContextCall(query, top_k, similarity_threshold, session_id, ok)

SpecRetrieve == Init /\ [][NextRetrieve]_vars

\* the configurations of the assembler: context off, and context on with
\* every Library retrieval going to the engine
AssembleConfigs == {c \in Configs : ~c.chat_library_use_cache}

\* user messages near the Journal only, and near the Journal and the Library
AssembleQueries == Queries \cup { <<"H","i"," ","a">> }

NextAssemble ==
    \/ \E s \in StoreSessionIds : UpsertSession(s, None)
    \/ \E s \in StoreSessionIds :
          AddMessage(s, MessageInput(nextMsgId).role, MessageInput(nextMsgId).content, None)
    \/ \E s \in StoreSessionIds : IngestSession(s) /\ faults' = faults
    \/ \E chunks \in DocumentChunks : AddDocumentsCall(chunks)
    \/ \E user_message \in AssembleQueries, use_library \in BOOLEAN,
          use_journal \in BOOLEAN, config \in AssembleConfigs,
          library_fault \in RetrievalFaults, journal_fault \in RetrievalFaults :
          /\ use_library \/ library_fault = "none"
          /\ use_journal \/ journal_fault = "none"
          /\ config.chat_context_enabled \/ (library_fault = "none" /\ journal_fault = "none")
          /\ PrepareChatMessage(user_message, use_library, use_journal, None,
                                config, library_fault, journal_fault)

SpecAssemble == Init /\ [][NextAssemble]_vars

\* sub is what is left of full after taking some of its entries out
IsSubList(sub, full) ==
    \E pick \in SUBSET (1..Len(full)) :
        /\ Cardinality(pick) = Len(sub)
        /\ \A i \in 1..Len(sub) :
              \E k \in pick : /\ Cardinality({j \in pick : j <= k}) = i
                               /\ full[k] = sub[i]

\* C12: whatever the query, top_k and threshold, every (text, score) that
\* get_context_for_chat returns has score >= threshold, there are at most
\* top_k of them, they are what is left of the store's hits after taking some
\* out, in descending order of score; when the retrieval fails the list is empty.
C12_ThresholdContract ==
    chat.op = "get_context_for_chat" =>
        /\ \A i \in 1..Len(chat.returned) :
              chat.returned[i][2] >= chat.similarity_threshold
        /\ Len(chat.returned) <= chat.top_k
        /\ IsSubList(chat.returned, chat.store_hits)
        /\ \A i, j \in 1..Len(chat.returned) :
              i < j => chat.returned[i][2] >= chat.returned[j][2]
        /\ ~chat.ok => chat.returned = <<>>

\* the store gave two hits and only the better one passed the threshold
C12_Witness ==
    /\ chat.op = "get_context_for_chat"
    /\ chat.ok
    /\ Len(chat.store_hits) = 2
    /\ Len(chat.returned) = 1
    /\ chat.store_hits[2][2] < chat.similarity_threshold

\* the 0-based positions at which sub occurs in text
Occurrences(sub, text) == {i \in 0..Len(text) : OccursAt(text, sub, i)}

C14_DegradesInsteadOfFailing ==
    [][ (chat'.op = "prepare_chat_message"
         /\ UNCHANGED <<sessVars, journalVars, library>>) =>
          \A r \in {chat'} :
            /\ ~r.raised
            /\ (/\ r.use_library /\ r.library_fault # "none"
                /\ r.use_journal /\ r.journal_fault = "none") =>
                  \A expected \in {GetContextForChat(r.user_message, JournalTopK,
                                        SimilarityThreshold, None, TRUE)} :
                     /\ r.library_results = <<>>
                     /\ r.journal_results = expected
                     /\ expected # <<>> =>
                           Occurrences(JournalHeader \o FormatContextText(expected),
                                       r.formatted_message) # {}
            /\ (/\ r.use_journal /\ r.journal_fault # "none"
                /\ r.use_library /\ r.library_fault = "none") =>
                  \A expected \in {LibraryGetContextForChat(r.user_message, LibraryTopK,
                                        SimilarityThreshold)} :
                     /\ r.journal_results = <<>>
                     /\ r.library_results = expected
                     /\ expected # <<>> =>
                           Occurrences(LibraryHeader \o FormatContextText(expected),
                                       r.formatted_message) # {}
            /\ (/\ r.use_library /\ r.library_fault # "none"
                /\ r.use_journal /\ r.journal_fault # "none") =>
                  /\ r.formatted_message = r.user_message
                  /\ r.library_results = <<>>
                  /\ r.journal_results = <<>> ]_vars

\* the Library search raised in a call whose Journal search gave a result
C14_Witness ==
    /\ chat.op = "prepare_chat_message"
    /\ chat.use_library
    /\ chat.library_fault # "none"
    /\ chat.journal_fault = "none"
    /\ chat.journal_results # <<>>
    /\ library # <<>>

----------------------------------------------------------------------------
(* Context assembly with prompt templates, with empty sections and with    *)
(* context switched off                                                    *)

\* context_prompt_template: left out, empty, and a template with both fields
Templates ==
    { None, Some(<<>>),
      Some(<<"Context:\n", "{rag_context}", "\n\nQuestion: ", "{user_message}">>) }

\* user messages near the Journal, near the Library, near both and near none
FormatQueries == { <<"H","i">>, <<"a">>, <<"H","i"," ","a">>, <<"z">> }

NextFormat ==
    \/ \E s \in StoreSessionIds : UpsertSession(s, None)
    \/ \E s \in StoreSessionIds :
          AddMessage(s, MessageInput(nextMsgId).role, MessageInput(nextMsgId).content, None)
    \/ \E s \in StoreSessionIds : IngestSession(s) /\ faults' = faults
    \/ \E chunks \in DocumentChunks : AddDocumentsCall(chunks)
    \/ \E user_message \in FormatQueries, use_library \in BOOLEAN,
          use_journal \in BOOLEAN, config \in AssembleConfigs,
          context_prompt_template \in Templates :
          PrepareChatMessageCall(user_message, use_library, use_journal, None,
              [NoArguments EXCEPT !.context_prompt_template = context_prompt_template],
              config, "none", "none")

SpecFormat == Init /\ [][NextFormat]_vars

\* C26: a section without results has no header in formatted_message; when
\* neither side returns a result formatted_message is the user message, with
\* or without a prompt template; with context switched off the user message
\* is returned as it is, both result lists are empty and neither the Library
\* engine nor the Journal is asked.
C26_EmptySectionsOmitted ==
    chat.op = "prepare_chat_message" =>
        /\ chat.library_results = <<>> =>
              Occurrences(LibraryHeader, chat.formatted_message) = {}
        /\ chat.journal_results = <<>> =>
              Occurrences(JournalHeader, chat.formatted_message) = {}
        /\ (chat.library_results = <<>> /\ chat.journal_results = <<>>) =>
              chat.formatted_message = chat.user_message
        /\ ~chat.chat_context_enabled =>
              /\ chat.formatted_message = chat.user_message
              /\ chat.library_results = <<>>
              /\ chat.journal_results = <<>>
              /\ ~chat.library_searched
              /\ ~chat.journal_searched

\* under a prompt template, the Library gave results and the Journal, which
\* holds chunks and was asked, gave none
C26_Witness ==
    /\ chat.op = "prepare_chat_message"
    /\ Truthy(chat.context_prompt_template)
    /\ chat.library_results # <<>>
    /\ chat.use_journal
    /\ journal # <<>>
    /\ chat.journal_results = <<>>
    /\ Occurrences(LibraryHeader, chat.formatted_message) # {}

----------------------------------------------------------------------------
(* The query cache filled to its capacity                                  *)

\* the questions of a long chat, in the order in which they are first asked:
\* one-word questions, no two of them near duplicates, every one of them
\* near some chunk of the Library
Questions ==
    << <<"a">>, <<"b">>, <<"c">>, <<"d">>, <<"e">>, <<"f">>,
       <<"a","b">>, <<"a","c">>, <<"b","c">>, <<"d","e">>, <<"d","f">>, <<"e","f">>,
       <<"a","d">>, <<"a","e">>, <<"a","f">>, <<"b","d">>, <<"b","e">>, <<"b","f">>,
       <<"c","d">>, <<"c","e">>, <<"c","f">>, <<"a","b","c">>, <<"d","e","f">>,
       <<"a","b","d">>, <<"a","b","e">> >>

\* how many different questions the chat has
MaxQuestions == 22

\* the questions that are asked again later on
AskedAgain == {1, 2}

\* the number of the next question that was not asked yet, given the
\* queries seen so far
NextQuestion(seen) ==
    LET asked == {k \in 1..Len(Questions) : Questions[k] \in seen}
    IN  IF asked = {} THEN 1
        ELSE 1 + CHOOSE k \in asked : \A j \in asked : j <= k

CachedQueries(c) == {c[i].query : i \in 1..Len(c)}

NextLru ==
    \/ \E chunks \in DocumentChunks : AddDocumentsCall(chunks)
    \/ \E k \in 1..MaxQuestions :
          /\ k <= NextQuestion(CachedQueries(cache))
          /\ k \in AskedAgain \cup {NextQuestion(CachedQueries(cache))}
          /\ PrepareChatMessage(Questions[k], TRUE, FALSE, None,
                                DefaultConfig, "none", "none")

SpecLru == Init /\ [][NextLru]_vars

\* C27: the cache never holds more than 20 entries and never an empty result
\* list; a call that puts a query that is not cached into a cache of 20
\* entries removes exactly the entry that was used (inserted or hit) least
\* recently, and the cache holds 20 entries again.
C27_BoundedLruCache ==
    /\ [](/\ Len(cache) <= 20
          /\ \A i \in 1..Len(cache) : cache[i].results # <<>>)
    /\ [][ (/\ Len(cache) = 20
            /\ CachedQueries(cache') \ CachedQueries(cache) # {})
              => /\ CachedQueries(cache') =
                       (CachedQueries(cache) \ {recency[1]})
                          \cup {NormalizeQuery(chat'.user_message)}
                 /\ Len(cache') = 20 ]_vars

\* the cache is full after an eviction: the first question, hit again after
\* the second was asked, is still cached, and the second is not
C27_Witness ==
    /\ Len(cache) = 20
    /\ Questions[1] \in CachedQueries(cache)
    /\ Questions[2] \notin CachedQueries(cache)
    /\ Questions[21] \in CachedQueries(cache)
    /\ chat.op = "prepare_chat_message"
    /\ chat.library_searched

----------------------------------------------------------------------------
(* Library retrievals of several prepare_chat_message calls at once: every  *)
(* access to ChatService._class_cache is a step of its own, and the steps   *)
(* of two calls interleave (the class takes no lock)                        *)

\* calls overlap once the cache holds this many entries
OverlapFrom == 18

\* the positions of the entry stored under key
PositionsOf(c, key) == {i \in 1..Len(c) : c[i].query = key}

SetCall(caller, state) ==
    calls' = [x \in DOMAIN calls \cup {caller} |-> IF x = caller THEN state ELSE calls[x]]

EndCall(caller) == calls' = [x \in DOMAIN calls \ {caller} |-> calls[x]]

RaceUnchanged ==
    UNCHANGED <<clock, sessVars, journalVars, blobVars, workerVars,
                chat, recency, store, ck, pending, moreVars>>

\* _retrieve_library_context enters _get_cached_context: the 5 most recent
\* entries are copied and compared with the query
CallLookup(caller, query) ==
    /\ caller \notin DOMAIN calls
    /\ DOMAIN calls = {} \/ Len(cache) >= OverlapFrom
    /\ \E hit \in {IF cache # <<>> THEN CachedEntry(cache, query) ELSE 0} :
          SetCall(caller,
              IF hit # 0
              THEN [pc |-> "promote", query |-> query,
                    key |-> cache[hit].query, results |-> cache[hit].results]
              ELSE [pc |-> "search", query |-> query,
                    key |-> NormalizeQuery(query), results |-> <<>>])
    /\ UNCHANGED cache
    /\ RaceUnchanged

\* self._class_cache.move_to_end(cached_query); return cached_results
CallPromote(caller) ==
    /\ caller \in DOMAIN calls
    /\ calls[caller].pc = "promote"
    /\ IF PositionsOf(cache, calls[caller].key) = {}
       THEN \* KeyError: the entry was evicted since it was copied
            /\ SetCall(caller, [calls[caller] EXCEPT !.pc = "raised"])
            /\ UNCHANGED cache
       ELSE /\ cache' = MoveToEnd(cache, CHOOSE i \in PositionsOf(cache, calls[caller].key) : TRUE)
            /\ EndCall(caller)
    /\ RaceUnchanged

\* _retrieve_library_direct
CallSearch(caller) ==
    /\ caller \in DOMAIN calls
    /\ calls[caller].pc = "search"
    /\ \E results \in {RetrieveLibraryDirect(calls[caller].query, LibraryTopK,
                                             SimilarityThreshold, "none").results} :
          IF results # <<>>
          THEN SetCall(caller, [calls[caller] EXCEPT !.pc = "check", !.results = results])
          ELSE EndCall(caller)
    /\ UNCHANGED cache
    /\ RaceUnchanged

\* _cache_context: if len(self._class_cache) >= self._max_cache_size
CallCheck(caller) ==
    /\ caller \in DOMAIN calls
    /\ calls[caller].pc = "check"
    /\ SetCall(caller, [calls[caller] EXCEPT
                           !.pc = IF Len(cache) >= MaxCacheSize THEN "pop" ELSE "store"])
    /\ UNCHANGED cache
    /\ RaceUnchanged

\* self._class_cache.popitem(last=False)
CallPop(caller) ==
    /\ caller \in DOMAIN calls
    /\ calls[caller].pc = "pop"
    /\ IF cache = <<>>
       THEN SetCall(caller, [calls[caller] EXCEPT !.pc = "raised"]) /\ UNCHANGED cache
       ELSE SetCall(caller, [calls[caller] EXCEPT !.pc = "store"]) /\ cache' = Tail(cache)
    /\ RaceUnchanged

\* self._class_cache[normalized_query] = results
CallStore(caller) ==
    /\ caller \in DOMAIN calls
    /\ calls[caller].pc = "store"
    /\ LET entry == [query |-> calls[caller].key, results |-> calls[caller].results]
           at == PositionsOf(cache, calls[caller].key)
       IN  cache' = IF at = {} THEN Append(cache, entry)
                    ELSE [cache EXCEPT ![CHOOSE i \in at : TRUE] = entry]
    /\ SetCall(caller, [calls[caller] EXCEPT !.pc = "move"])
    /\ RaceUnchanged

\* self._class_cache.move_to_end(normalized_query), and the call returns
CallMove(caller) ==
    /\ caller \in DOMAIN calls
    /\ calls[caller].pc = "move"
    /\ IF PositionsOf(cache, calls[caller].key) = {}
       THEN /\ SetCall(caller, [calls[caller] EXCEPT !.pc = "raised"])
            /\ UNCHANGED cache
       ELSE /\ cache' = MoveToEnd(cache, CHOOSE i \in PositionsOf(cache, calls[caller].key) : TRUE)
            /\ EndCall(caller)
    /\ RaceUnchanged

\* the queries cached or being looked up
SeenQueries == CachedQueries(cache) \cup {calls[x].key : x \in DOMAIN calls}

NextRace ==
    \/ \E chunks \in DocumentChunks : AddDocumentsCall(chunks)
    \/ \E caller \in Callers, k \in 1..MaxQuestions :
          /\ library # <<>>
          /\ k \in {NextQuestion(SeenQueries) - 1, NextQuestion(SeenQueries)}
          /\ CallLookup(caller, Questions[k])
    \/ \E caller \in Callers : CallPromote(caller)
    \/ \E caller \in Callers : CallSearch(caller)
    \/ \E caller \in Callers : CallCheck(caller)
    \/ \E caller \in Callers : CallPop(caller)
    \/ \E caller \in Callers : CallStore(caller)
    \/ \E caller \in Callers : CallMove(caller)

SpecRace == Init /\ [][NextRace]_vars

\* C28: whatever the interleaving of concurrent prepare_chat_message calls,
\* the cache holds at most 20 entries and no call fails on an entry that
\* another call has removed: every lookup with promotion and every insert
\* with eviction runs as one step under the cache's mutex.
C28_CacheAccessesSerialized ==
    /\ Len(cache) <= 20
    /\ \A caller \in DOMAIN calls : calls[caller].pc # "raised"

----------------------------------------------------------------------------
(* Library retrievals with the limit and the threshold given by the call   *)

\* user messages that are near duplicates of one another
ParamQueries == { <<"a"," ","b">>, <<"A"," ","b"," ","c">>, <<"d">>, <<"e">> }

\* library_top_k and similarity_threshold of a call: left out, or given
LibraryTopKs == {None, Some(1)}
LibraryThresholds == {None, Some(40)}

NextParams ==
    \/ \E chunks \in DocumentChunks : AddDocumentsCall(chunks)
    \/ \E user_message \in ParamQueries, library_top_k \in LibraryTopKs,
          similarity_threshold \in LibraryThresholds :
          PrepareChatMessageCall(user_message, TRUE, FALSE, None,
              [NoArguments EXCEPT !.library_top_k = library_top_k,
                                  !.similarity_threshold = similarity_threshold],
              DefaultConfig, "none", "none")

SpecParams == Init /\ [][NextParams]_vars

\* C29: every entry of library_results has a score of at least the Library
\* similarity threshold of the call, and there are at most library_top_k of
\* them, also when the results come from the query cache.
C29_LibraryResultsWithinCallLimits ==
    (chat.op = "prepare_chat_message" /\ chat.use_library) =>
        /\ Len(chat.library_results) <= chat.library_top_k
        /\ \A i \in 1..Len(chat.library_results) :
              chat.library_results[i][2] >= chat.similarity_threshold

----------------------------------------------------------------------------
(* Chat turns while documents are ingested into the Library collection,   *)
(* every document once                                                     *)

StaleQueries == { <<"H","i","."," ","O","n","e",".">> }

NextStale ==
    \/ \E doc \in DocumentUploads :
          nextBlob < MaxDocs /\ Save(doc.file_content, doc.original_filename)
    \/ \E blob_id \in JobBlobIds :
          /\ \A job_id \in DOMAIN jobs : jobs[job_id].blob_id # blob_id
          /\ Enqueue(blob_id)
    \/ \E job_id \in JobIds : StartJob(job_id)
    \/ \E job_id \in JobIds : RunJob(job_id)
    \/ \E user_message \in StaleQueries :
          PrepareChatMessage(user_message, TRUE, FALSE, None,
                             DefaultConfig, "none", "none")

SpecStale == Init /\ [][NextStale]_vars

\* C39: the library_results of a chat turn are what the Library collection
\* gives for the query at that turn: once a document has been ingested, no
\* later prepare_chat_message returns results computed before (the query
\* cache serves no entry older than the last change of the collection).
C39_ResultsReflectLibrary ==
    [][\A user_message \in StaleQueries :
          PrepareChatMessage(user_message, TRUE, FALSE, None,
                             DefaultConfig, "none", "none")
             => chat'.library_results
                  = LibraryGetContextForChat(user_message, LibraryTopK,
                                             SimilarityThreshold)]_vars

----------------------------------------------------------------------------
(* VectorStore (rag/vector_store.py): construction with the health probe   *)
(* of remote mode, and the operations on the client it ends up with        *)

MaxStorePoints == 2

\* whether sub occurs in text
Contains(text, sub) == \E i \in 0..Len(text) : OccursAt(text, sub, i)

\* the words the constructor looks for in the text of the probe's exception
ConnectionTerms ==
    { <<"c","o","n","n","e","c","t","i","o","n">>, <<"r","e","f","u","s","e","d">>,
      <<"t","i","m","e","o","u","t">>, <<"u","n","r","e","a","c","h","a","b","l","e">> }

\* is_connection_error
IsConnectionError(message) ==
    \E term \in ConnectionTerms : Contains(Lower(message), term)

\* what get_collections() can raise when the server is probed: the class of
\* the failure (the server could not be reached, or it was reached and
\* refused the request) and the text of the exception
ProbeErrors ==
    { [class |-> "connection",
       message |-> <<"C","o","n","n","e","c","t","i","o","n"," ","r","e","f","u","s","e","d">>],
      [class |-> "connection", message |-> <<"t","i","m","e","d"," ","o","u","t">>],
      [class |-> "connection",
       message |-> <<"N","a","m","e"," ","n","o","t"," ","k","n","o","w","n">>],
      [class |-> "other",
       message |-> <<"4","0","1"," ","U","n","a","u","t","h","o","r","i","z","e","d">>] }

\* VectorStore(use_persistent, host, port): probe is None when
\* get_collections() answers, else the exception it raises
Construct(use_persistent, probe) ==
    /\ store.state = "unconstructed"
    /\ store' =
          IF ~use_persistent
          THEN [state |-> "ready", requested |-> FALSE, probe |-> None,
                use_persistent |-> FALSE, client |-> "memory",
                collections |-> EmptyMap, last |-> [op |-> "init"]]
          ELSE IF probe = None
          THEN [state |-> "ready", requested |-> TRUE, probe |-> None,
                use_persistent |-> TRUE, client |-> "remote",
                collections |-> EmptyMap, last |-> [op |-> "init"]]
          ELSE IF IsConnectionError(Val(probe).message)
          THEN [state |-> "ready", requested |-> TRUE, probe |-> probe,
                use_persistent |-> FALSE, client |-> "memory",
                collections |-> EmptyMap, last |-> [op |-> "init"]]
          ELSE [state |-> "failed", requested |-> TRUE, probe |-> probe,
                error |-> "RuntimeError"]
    /\ UNCHANGED <<clock, sessVars, journalVars, blobVars, workerVars, chat, cache, recency, ck, stepVars>>

CollectionNames == {"library_docs", "journal_entries"}
PointTexts == { <<"a"," ","b">>, <<"c">> }

\* whether a call on the client goes through: the embedded client always
\* answers, the server may not
ClientAnswers(server_up) == store.client = "memory" \/ server_up

\* setup_collection(name, dim): True when the collection is there or could be
\* created
SetupCollectionCall(name, server_up) ==
    /\ store.state = "ready"
    /\ store' = IF ClientAnswers(server_up)
                THEN [store EXCEPT
                        !.collections = IF name \in DOMAIN store.collections
                                        THEN store.collections
                                        ELSE WithEntry(store.collections, name, <<>>),
                        !.last = [op |-> "setup_collection", returned |-> TRUE]]
                ELSE [store EXCEPT
                        !.last = [op |-> "setup_collection", returned |-> FALSE]]
    /\ UNCHANGED <<clock, sessVars, journalVars, blobVars, workerVars, chat, cache, recency, ck, stepVars>>

\* add_points(name, points): the number of points upserted, 0 when the
\* upsert raises
AddPointsCall(name, points, server_up) ==
    /\ store.state = "ready"
    /\ name \in DOMAIN store.collections =>
          Len(store.collections[name]) + Len(points) <= MaxStorePoints
    /\ store' = IF ClientAnswers(server_up) /\ name \in DOMAIN store.collections
                THEN [store EXCEPT
                        !.collections[name] = store.collections[name] \o points,
                        !.last = [op |-> "add_points", existed |-> TRUE,
                                  given |-> Len(points), returned |-> Len(points)]]
                ELSE [store EXCEPT
                        !.last = [op |-> "add_points",
                                  existed |-> name \in DOMAIN store.collections,
                                  given |-> Len(points), returned |-> 0]]
    /\ UNCHANGED <<clock, sessVars, journalVars, blobVars, workerVars, chat, cache, recency, ck, stepVars>>

\* search(name, query_vector, limit): the (text, score) of the hits, [] when
\* query_points raises
SearchCall(name, query, limit, server_up) ==
    /\ store.state = "ready"
    /\ store' = IF ClientAnswers(server_up) /\ name \in DOMAIN store.collections
                THEN \* the hits of the collection, best first
                     [store EXCEPT
                        !.last = [op |-> "search", existed |-> TRUE, answered |-> TRUE,
                                  returned |->
                                    LET hits == QueryPoints(store.collections[name],
                                                            query, None, limit)
                                    IN  [i \in 1..Len(hits) |->
                                            <<hits[i].payload.text, hits[i].score>>]]]
                ELSE [store EXCEPT
                        !.last = [op |-> "search",
                                  existed |-> name \in DOMAIN store.collections,
                                  answered |-> FALSE, returned |-> <<>>]]
    /\ UNCHANGED <<clock, sessVars, journalVars, blobVars, workerVars, chat, cache, recency, ck, stepVars>>

NextStore ==
    \/ \E use_persistent \in BOOLEAN,
          probe \in {None} \cup {Some(e) : e \in ProbeErrors} :
          Construct(use_persistent, probe)
    \/ \E name \in CollectionNames, server_up \in BOOLEAN :
          SetupCollectionCall(name, server_up)
    \/ \E name \in CollectionNames, text \in PointTexts, server_up \in BOOLEAN :
          AddPointsCall(name, <<[text |-> text]>>, server_up)
    \/ \E name \in CollectionNames, query \in PointTexts, server_up \in BOOLEAN :
          SearchCall(name, query, MaxStorePoints, server_up)

SpecStore == Init /\ [][NextStore]_vars

\* C15: when VectorStore is constructed in remote mode and the probe fails
\* with a connection-class error, the store is an embedded one with
\* use_persistent false, on which add_points to a collection that was set up
\* stores the points and search answers; when the probe fails with any other
\* error, the constructor raises RuntimeError and there is no store.
C15_FallbackOnConnectionError ==
    (store.state # "unconstructed" /\ store.requested /\ store.probe # None) =>
        /\ Val(store.probe).class = "connection" =>
              /\ store.state = "ready"
              /\ store.client = "memory"
              /\ ~store.use_persistent
              /\ (store.last.op = "add_points" /\ store.last.existed) =>
                    store.last.returned = store.last.given
              /\ (store.last.op = "search" /\ store.last.existed) =>
                    store.last.answered
        /\ Val(store.probe).class # "connection" =>
              /\ store.state = "failed"
              /\ store.error = "RuntimeError"

----------------------------------------------------------------------------
(* The two chunkers step by step: chunk_text (rag/chunking.py) and         *)
(* JournalManager._chunk_text, one iteration of the while loop at a time   *)

MaxChunkTextLen == 3
MaxChunkSize == 5
MaxChunkIterations == 14

ChunkAlphabet == {"a", " ", ".", "\n"}

\* every text over the alphabet up to a length
RECURSIVE TextsUpTo(_)
TextsUpTo(n) ==
    IF n = 0 THEN {<<>>}
    ELSE TextsUpTo(n - 1)
         \cup {Append(t, c) : t \in {u \in TextsUpTo(n - 1) : Len(u) = n - 1},
                               c \in ChunkAlphabet}

\* longer texts with paragraph breaks, sentence ends and runs of spaces at
\* the places where windows begin and end
LongTexts ==
    { <<"a","b"," "," ","c","d","e","f">>,
      <<"a","b","\n","\n","c","d","e","f">>,
      <<"a","b","c","."," ","d","e","f","g","h">>,
      <<"a","b","c","d","e","f","g","h","i","j","k">>,
      <<"a"," "," "," "," "," "," ","b">>,
      <<"a","b","c","?","\n","d","e","."," ","f","g","h">> }

ChunkTexts == TextsUpTo(MaxChunkTextLen) \cup LongTexts

ChunkerKinds == {"chunk_text", "_chunk_text"}

\* a call chunk_text(text, chunk_size, overlap) or _chunk_text(text,
\* chunk_size, overlap) begins: a text that fits in one window is returned at
\* once, otherwise the loop starts at 0
ChunkCall(kind, text, chunk_size, overlap) ==
    /\ ck.pc = "idle"
    /\ ck' = IF Len(text) <= chunk_size
             THEN [pc |-> "done", kind |-> kind, text |-> text,
                   chunk_size |-> chunk_size, overlap |-> overlap,
                   start |-> 0, emitted |-> <<>>,
                   chunks |-> IF kind = "chunk_text" /\ Strip(text) = <<>>
                              THEN <<>> ELSE <<text>>]
             ELSE [pc |-> "loop", kind |-> kind, text |-> text,
                   chunk_size |-> chunk_size, overlap |-> overlap,
                   start |-> 0, emitted |-> <<>>, chunks |-> <<>>]
    /\ UNCHANGED <<clock, sessVars, journalVars, blobVars, workerVars, chat, cache, recency, store, stepVars>>

\* one iteration of the while loop of chunk_text: the window is cut, its
\* stripped text is kept unless empty, and the loop ends when the next start
\* is past the text
ChunkTextStep ==
    /\ ck.pc = "loop"
    /\ ck.kind = "chunk_text"
    /\ Len(ck.emitted) < MaxChunkIterations
    /\ \E end \in {WindowEnd(ck.text, ck.start, ck.chunk_size)} :
       \E chunk \in {Strip(Slice(ck.text, ck.start, end))} :
       \E kept \in {IF chunk # <<>> THEN Append(ck.emitted, chunk) ELSE ck.emitted} :
          ck' = IF end - ck.overlap >= Len(ck.text)
                THEN [ck EXCEPT !.pc = "done", !.start = end - ck.overlap,
                                !.emitted = kept, !.chunks = kept]
                ELSE [ck EXCEPT !.start = end - ck.overlap, !.emitted = kept]
    /\ UNCHANGED <<clock, sessVars, journalVars, blobVars, workerVars, chat, cache, recency, store, stepVars>>

\* one iteration of the while loop of _chunk_text, or its end: the stripped
\* text of every window is kept, and the empty ones are dropped on return
JournalChunkStep ==
    /\ ck.pc = "loop"
    /\ ck.kind = "_chunk_text"
    /\ ck.start < Len(ck.text) => Len(ck.emitted) < MaxChunkIterations
    /\ IF ck.start < Len(ck.text)
       THEN \E end \in {JournalWindowEnd(ck.text, ck.start, ck.chunk_size)} :
               ck' = [ck EXCEPT !.start = end - ck.overlap,
                                !.emitted = Append(ck.emitted,
                                               Strip(Slice(ck.text, ck.start, end)))]
       ELSE ck' = [ck EXCEPT !.pc = "done", !.chunks = NonEmpty(ck.emitted)]
    /\ UNCHANGED <<clock, sessVars, journalVars, blobVars, workerVars, chat, cache, recency, store, stepVars>>

NextChunk ==
    \/ /\ ck.pc = "idle"
       /\ \E kind \in ChunkerKinds, text \in ChunkTexts,
             chunk_size \in 1..MaxChunkSize :
             \E overlap \in 0..(chunk_size - 1) :
                ChunkCall(kind, text, chunk_size, overlap)
    \/ ChunkTextStep
    \/ JournalChunkStep

SpecChunk == Init /\ [][NextChunk]_vars

\* the text is built by putting the chunks one after the other, each without
\* the up to overlap characters at its head that end what was built so far
RECURSIVE Rebuilds(_, _, _, _)
Rebuilds(chunks, built, text, overlap) ==
    IF chunks = <<>> THEN built = text
    ELSE \E o \in 0..Min(overlap, Min(Len(built), Len(Head(chunks)))) :
            /\ SubSeq(built, Len(built) - o + 1, Len(built)) = SubSeq(Head(chunks), 1, o)
            /\ Rebuilds(Tail(chunks),
                        built \o SubSeq(Head(chunks), o + 1, Len(Head(chunks))),
                        text, overlap)

\* C16: when a chunker returns, concatenating its chunks in order, each
\* without the at most O characters it shares with the one before, gives
\* back the input text exactly.
C16_ChunksCoverText ==
    ck.pc = "done" => Rebuilds(ck.chunks, <<>>, ck.text, ck.overlap)

\* what a chunker has given back so far: the chunks it returned, or the
\* ones it keeps while it runs
ChunksSoFar == IF ck.pc = "done" THEN ck.chunks ELSE ck.emitted

\* the statement of C17 as it was made: every chunk is at most chunk_size
\* long and not empty after edge-stripping, and a text that fits in one
\* window gives exactly one chunk, the text itself
C17_AsClaimed ==
    ck.pc = "done" =>
        /\ \A i \in 1..Len(ck.chunks) :
              /\ Len(Strip(ck.chunks[i])) <= ck.chunk_size
              /\ Strip(ck.chunks[i]) # <<>>
        /\ Len(ck.text) <= ck.chunk_size => ck.chunks = <<ck.text>>

\* C17: every chunk a chunker emits is at most chunk_size long, and every
\* chunk of a text longer than chunk_size that it returns is not empty; a
\* text of at most chunk_size characters that is not blank gives exactly one
\* chunk, the text itself; a blank one gives no chunk from chunk_text and
\* the text itself from _chunk_text.
C17_ChunkLengthBound ==
    ck.pc # "idle" =>
        /\ \A i \in 1..Len(ChunksSoFar) : Len(ChunksSoFar[i]) <= ck.chunk_size
        /\ (ck.pc = "done" /\ Len(ck.text) > ck.chunk_size) =>
              \A i \in 1..Len(ck.chunks) : ck.chunks[i] # <<>>
        /\ (ck.pc = "done" /\ Len(ck.text) <= ck.chunk_size) =>
              IF Strip(ck.text) # <<>> \/ ck.kind = "_chunk_text"
              THEN ck.chunks = <<ck.text>>
              ELSE ck.chunks = <<>>

\* a text longer than the window was cut at a paragraph break into chunks
\* shorter than the window
C17_Witness ==
    /\ ck.pc = "done"
    /\ ck.kind = "chunk_text"
    /\ Len(ck.text) > ck.chunk_size
    /\ Len(ck.chunks) >= 2
    /\ Len(ck.chunks[1]) < ck.chunk_size - 1
    /\ Len(ck.chunks[2]) = ck.chunk_size

----------------------------------------------------------------------------
(* Progress of the chunkers *)

\* C32: for every text, chunk size W and overlap O with 0 <= O < W, every
\* iteration of the loop of a chunker moves the window start forward,
\* whatever break is chosen inside the window, so that the start reaches
\* len(text) and the call returns.
C32_WindowStartIncreases ==
    [][(ck.pc = "loop" /\ ck.start < Len(ck.text)) => ck'.start > ck.start]_vars

----------------------------------------------------------------------------
(* The chunkers on windows wide enough to hold two sentence ends *)

MaxBreakSize == 11

\* texts with a sentence end or a paragraph break at the middle of the first
\* window, and with sentence ends of two kinds inside one window
BreakTexts ==
    { <<"a","b","c","d","e","f","."," ","h","?"," ","k","l","m","n","o">>,
      <<"a","b","c","d","e","f","?"," ","h","."," ","k","l","m","n","o">>,
      <<"a","b","c","."," ","f","g","h","i","j">>,
      <<"a","b","c","\n","\n","f","g","."," ","j","k","l","m">> }

NextBreak ==
    \/ /\ ck.pc = "idle"
       /\ \E kind \in ChunkerKinds, text \in BreakTexts,
             chunk_size \in (MaxChunkSize + 1)..MaxBreakSize :
             \E overlap \in 0..(chunk_size - 1) :
                ChunkCall(kind, text, chunk_size, overlap)
    \/ ChunkTextStep
    \/ JournalChunkStep

SpecBreak == Init /\ [][NextBreak]_vars

\* the 0-based positions in [s + W/2, e] at which a separator out of seps
\* lies wholly inside the window
BreaksInWindow(text, seps, s, e, W) ==
    { i \in (s + (W \div 2))..(e - 2) : \E sep \in seps : OccursAt(text, sep, i) }

Highest(positions) == CHOOSE i \in positions : \A j \in positions : j <= i

\* where the window that starts at s ends, as stated: after the last
\* paragraph break, else after the last sentence terminator of any kind,
\* else at e
StatedWindowEnd(text, s, W) ==
    LET e == s + W
        paras == BreaksInWindow(text, {NL2}, s, e, W)
        sents == BreaksInWindow(text, {SentenceSeps[k] : k \in DOMAIN SentenceSeps}, s, e, W)
    IN  IF paras # {} THEN Highest(paras) + 2
        ELSE IF sents # {} THEN Highest(sents) + 2
        ELSE e

\* C33: a window [s, e) with e = s + W < len(text) ends just after the last
\* paragraph break lying in [s + W/2, e] when there is one; when there is
\* none it ends just after the right-most sentence terminator of any kind
\* lying in [s + W/2, e]; and only when it has neither it ends at e.
C33_WindowEndsAtLastBreak ==
    [][(/\ ck.pc = "loop"
        /\ ck.start < Len(ck.text)
        /\ ck.start + ck.chunk_size < Len(ck.text))
          => ck'.start + ck.overlap
               = StatedWindowEnd(ck.text, ck.start, ck.chunk_size)]_vars

----------------------------------------------------------------------------
(* The blob store with calls that are cut short *)

CrashContents == { <<"H","i",".">> }
CrashFilenames == { <<"a",".","T","X","T">>, <<"b",".","m","d">> }

NextBlobCrash ==
    \/ \E file_content \in CrashContents, original_filename \in CrashFilenames :
          Save(file_content, original_filename)
    \/ \E blob_id \in BlobIds : Delete(blob_id)
    \/ \E file_content \in CrashContents, original_filename \in CrashFilenames,
          point \in CrashPoints :
          SaveCrash(file_content, original_filename, point)
    \/ \E blob_id \in BlobIds, point \in CrashPoints : DeleteCrash(blob_id, point)

SpecBlobCrash == Init /\ [][NextBlobCrash]_vars

\* C18: a save or delete that is interrupted while it writes the manifest
\* leaves a manifest that can be read, the old one or the new one, and the
\* entry of every blob that was saved and not deleted is still in it.
C18_ManifestWrittenAtomically ==
    /\ ~torn
    /\ \A id \in DOMAIN saved : GetInfo(id) # None

\* C19: after any sequence of saves and deletes, interrupted ones included,
\* the file of every manifest entry exists, every blob file has a manifest
\* entry, and get(id) is None for an entry whose file is missing.
C19_ManifestAndDiskAgree ==
    /\ \A id \in DOMAIN LoadManifest : LoadManifest[id].storage_path \in DOMAIN disk
    /\ \A path \in DOMAIN disk :
          \E id \in DOMAIN LoadManifest : LoadManifest[id].storage_path = path
    /\ \A id \in DOMAIN LoadManifest :
          LoadManifest[id].storage_path \notin DOMAIN disk => Get(id) = None

\* the path under which a blob id is stored, whatever its extension
IsFileOf(path, blob_id) == path # <<>> /\ path[1] = blob_id

\* C20: a delete(id) repeated after a delete(id) that was cut short once the
\* file was removed completes, returns True and leaves neither the file nor
\* the entry of id; a delete of an id that has no entry returns False and
\* changes nothing; the entries and files of the other blobs stay as they are.
C20_DeleteRetrySafe ==
    [][ (blobRet'.op = "delete" /\ blobRet'.completed
         /\ UNCHANGED <<nextBlob>>) =>
          \A id \in {blobRet'.blob_id} :
            /\ (blobRet.op = "delete" /\ ~blobRet.completed /\ blobRet.blob_id = id) =>
                  /\ blobRet'.returned
                  /\ GetInfo(id)' = None
                  /\ \A path \in DOMAIN disk' : ~IsFileOf(path, id)
            /\ GetInfo(id) = None =>
                  /\ ~blobRet'.returned
                  /\ UNCHANGED <<manifest, disk, torn>>
            /\ \A other \in DOMAIN saved \ {id} :
                  /\ GetInfo(other)' = GetInfo(other)
                  /\ Get(other)' = Get(other) ]_vars

----------------------------------------------------------------------------
(* The blob store with calls in flight: the manifest is read and written   *)
(* back in separate steps                                                   *)

BlobUnchanged == UNCHANGED <<clock, sessVars, journalVars, workerVars, chat, cache,
                             recency, store, ck, pending, calls, ingests, registry>>

\* save() up to `manifest[blob_id] = asdict(blob_info)`: the blob file is
\* written, the manifest is loaded and the entry added to the loaded copy
SaveLoad(caller, file_content, original_filename) ==
    /\ caller \notin DOMAIN saves
    /\ nextBlob < MaxBlobs
    /\ \E blob_info \in {MakeBlobInfo(GenerateBlobId, file_content, original_filename)} :
          /\ disk' = WithEntry(disk, blob_info.storage_path, file_content)
          /\ saves' = WithEntry(saves, caller,
                          [op |-> "save", blob_id |-> blob_info.blob_id,
                           file_content |-> file_content,
                           original_filename |-> original_filename,
                           manifest |-> WithEntry(LoadManifest, blob_info.blob_id, blob_info)])
    /\ nextBlob' = nextBlob + 1
    /\ UNCHANGED <<manifest, saved, torn, blobRet>>
    /\ BlobUnchanged

\* delete(blob_id) up to `del manifest[blob_id]`: the manifest is loaded, an
\* id that is not in it ends the call with False; otherwise the file is
\* unlinked and the entry removed from the loaded copy
DeleteLoad(caller, blob_id) ==
    /\ caller \notin DOMAIN saves
    /\ IF blob_id \notin DOMAIN LoadManifest
       THEN /\ blobRet' = [op |-> "delete", blob_id |-> blob_id,
                           completed |-> TRUE, returned |-> FALSE]
            /\ UNCHANGED <<disk, saves>>
       ELSE /\ disk' = Unlink(LoadManifest[blob_id].storage_path)
            /\ saves' = WithEntry(saves, caller,
                            [op |-> "delete", blob_id |-> blob_id,
                             manifest |-> WithoutEntry(LoadManifest, blob_id)])
            /\ UNCHANGED blobRet
    /\ UNCHANGED <<manifest, nextBlob, saved, torn>>
    /\ BlobUnchanged

\* _save_manifest(manifest) and the return of the call: the copy the call
\* has changed is written over _manifest.json
SaveManifest(caller) ==
    /\ caller \in DOMAIN saves
    /\ manifest' = saves[caller].manifest
    /\ torn' = FALSE
    /\ blobRet' = [op |-> saves[caller].op, blob_id |-> saves[caller].blob_id,
                   completed |-> TRUE, returned |-> TRUE]
    /\ saved' = IF saves[caller].op = "save"
                THEN WithEntry(saved, saves[caller].blob_id,
                        [file_content |-> saves[caller].file_content,
                         original_filename |-> saves[caller].original_filename])
                ELSE WithoutEntry(saved, saves[caller].blob_id)
    /\ saves' = WithoutEntry(saves, caller)
    /\ UNCHANGED <<disk, nextBlob>>
    /\ BlobUnchanged

NextBlobRace ==
    \/ \E caller \in Callers, file_content \in CrashContents,
          original_filename \in CrashFilenames :
          SaveLoad(caller, file_content, original_filename)
    \/ \E caller \in Callers, blob_id \in DOMAIN saved : DeleteLoad(caller, blob_id)
    \/ \E caller \in Callers : SaveManifest(caller)

SpecBlobRace == Init /\ [][NextBlobRace]_vars

\* C37: when saves, or saves and deletes of other ids, have run concurrently
\* and all have returned, no manifest update is lost: every blob_id a save
\* has returned (and no delete has removed) is in the manifest and resolved
\* by get, and every deleted id is absent from the manifest.
C37_NoManifestUpdateLost ==
    saves = EmptyMap =>
        \A i \in 1..nextBlob :
        \A blob_id \in {BlobIdTable[i]} :
            IF blob_id \in DOMAIN saved
            THEN blob_id \in DOMAIN LoadManifest /\ Get(blob_id) # None
            ELSE blob_id \notin DOMAIN LoadManifest

----------------------------------------------------------------------------
(* ToolRegistry (agents/tool_registry.py) *)

ToolNames == {"search", "notes"}

\* what a tool does when it is asked: validate_parameters accepts the
\* parameters or not, and execute returns a ToolResult (success true or
\* false) or raises an Exception
ToolOutcomes == {"success", "failure", "raises"}

RegistryUnchanged ==
    UNCHANGED <<clock, sessVars, journalVars, blobVars, workerVars, chat, cache,
                recency, store, ck, pending, calls, ingests, saves>>

\* register(tool): a name that is registered raises ValueError
Register(tool_name) ==
    /\ registry' = IF tool_name \in registry.tools
                   THEN [registry EXCEPT !.last = [op |-> "register", tool_name |-> tool_name,
                                                   raised |-> TRUE]]
                   ELSE [registry EXCEPT !.tools = @ \cup {tool_name},
                                         !.last = [op |-> "register", tool_name |-> tool_name,
                                                   raised |-> FALSE]]
    /\ RegistryUnchanged

\* set_allowlist(tool_names): None, or a list of names, registered or not
SetAllowlist(tool_names) ==
    /\ registry' = [registry EXCEPT !.allowlist = tool_names,
                                    !.last = [op |-> "set_allowlist"]]
    /\ RegistryUnchanged

\* is_allowed ignoring the allowlist
IsAllowedAlways(tool_name) == tool_name \in registry.tools

\* is_allowed(tool_name)
IsAllowed(tool_name) ==
    IF tool_name \notin registry.tools THEN FALSE
    ELSE IF registry.allowlist = None THEN TRUE
    ELSE tool_name \in Val(registry.allowlist)

\* execute_tool(tool_name, parameters, validate); valid says whether the
\* tool's validate_parameters accepts the parameters, outcome what its
\* execute does with them; called records whether execute was awaited
ExecuteTool(tool_name, validate, valid, outcome) ==
    /\ \E found \in {tool_name \in registry.tools} :
       \E allowed \in {IsAllowed(tool_name)} :
       \E passed \in {(~validate) \/ valid} :
          registry' =
             [registry EXCEPT !.last =
                [op |-> "execute_tool", tool_name |-> tool_name, raised |-> FALSE,
                 called |-> (found /\ allowed /\ passed),
                 success |-> (found /\ allowed /\ passed /\ outcome = "success"),
                 error |-> IF ~found THEN "not found"
                           ELSE IF ~allowed THEN "is not in allowlist"
                           ELSE IF ~passed THEN "Parameter validation failed"
                           ELSE IF outcome = "raises" THEN "Tool execution failed"
                           ELSE IF outcome = "failure" THEN "tool"
                           ELSE "none"]]
    /\ RegistryUnchanged

Allowlists == {None} \cup {Some(names) : names \in SUBSET ToolNames}

NextTools ==
    \/ \E tool_name \in ToolNames : Register(tool_name)
    \/ \E tool_names \in Allowlists : SetAllowlist(tool_names)
    \/ \E tool_name \in ToolNames, validate, valid \in BOOLEAN, outcome \in ToolOutcomes :
          ExecuteTool(tool_name, validate, valid, outcome)

SpecTools == Init /\ [][NextTools]_vars

\* C40: execute_tool awaits a tool's execute only if the tool is registered,
\* is allowed by the allowlist in force at the call and, with validate true,
\* its parameters pass validation; in every other case, and when execute
\* raises, it returns a ToolResult with success false and does not raise;
\* register of a registered name raises and leaves the registry as it was.
C40_GuardedToolExecution ==
    /\ [][\A tool_name \in ToolNames, validate, valid \in BOOLEAN, outcome \in ToolOutcomes :
            ExecuteTool(tool_name, validate, valid, outcome)
              => \E registered \in {tool_name \in registry.tools} :
                 \E listed \in {(registry.allowlist = <<>>)
                                   \/ (tool_name \in registry.allowlist[1])} :
                 \E passed \in {(~validate) \/ valid} :
                    /\ registry'.last.called => (registered /\ listed /\ passed)
                    /\ ~registry'.last.raised
                    /\ (~(registered /\ listed /\ passed) \/ outcome = "raises")
                          => ~registry'.last.success
                    /\ registry'.tools = registry.tools
                    /\ registry'.allowlist = registry.allowlist]_vars
    /\ [][\A tool_name \in ToolNames :
            (Register(tool_name) /\ tool_name \in registry.tools)
              => /\ registry'.last.raised
                 /\ registry'.tools = registry.tools
                 /\ registry'.allowlist = registry.allowlist]_vars

\* with an allowlist in force, an allowed tool was executed with validated
\* parameters and raised, and the call returned a failure
C40_Witness ==
    /\ registry.last.op = "execute_tool"
    /\ registry.allowlist # <<>>
    /\ registry.tools = ToolNames
    /\ registry.last.called
    /\ registry.last.error = "Tool execution failed"
    /\ ~registry.last.success

====
